---- MODULE Spec2Model ----
(***************************************************************************)
(* Load-generation and validation harness of the Kolyo rate limiter        *)
(* (load_testing/comprehensive_load_test.py): main()'s phases, the worker  *)
(* pool that appends RequestMetrics to a lock-protected log, the edge-case *)
(* scenarios and the statistics functions.                                 *)
(*                                                                         *)
(* Time is wall-clock time in ticks, counted from the moment a pool is     *)
(* created; a tick is a second, or a fraction of one in the runs that look *)
(* at pacing.  The remote service, the random source and the scheduler are *)
(* the environment: every response, every draw and every interleaving is a *)
(* choice.  Only the network call, the pacing sleep and the wait for a     *)
(* pool thread take time; everything else a worker does is done within the *)
(* tick it starts in.                                                      *)
(***************************************************************************)
EXTENDS Integers, Sequences, FiniteSets, TLC

VARIABLES
    args,               \* parse_args(): the flags and numbers of this invocation
    env,                \* what the service and the random source may produce in this run
    pc,                 \* main(): the phase about to run
    ran,                \* the phases that have run so far, in order (history)
    health_check,       \* HealthCheckResult.passed, NoneV when skipped / not yet run
    edge_case_results,  \* List[EdgeCaseResult]: passed of each scenario that returned
    pool,               \* which worker pool exists: "none", "main", "burst"
    wk,                 \* worker id -> the local state of that worker_thread
    now,                \* time.time() - (creation time of the current pool), in ticks
    lock,               \* threading.Lock of the current pool: 0 free, else holder
    metrics,            \* main(): metrics, the outcome log of the main pool
    burst_metrics,      \* run_burst_test(): metrics, the outcome log of the burst pool
    joined,             \* what main() saw when it joined the main pool, NoJoin before
    report,             \* what generate_reports() wrote: << >> before, else << summary >>
    validation_passed,  \* run_post_test_validation() result, NoneV before
    exit_code,          \* process exit status, NoInt while running
    rnd,                \* worker id -> the state of that worker's random.Random
    generated,          \* worker id -> what the worker drew from it, call by call (history)
    suite_keys,         \* suite run -> the keys its scenarios have configured (history)
    configuration,      \* what the configuration calls of the run met, and what
                        \* setup_configurations returned (history)
    phase1_bucket,      \* phase1.py main(): << bucket >>, the TokenBucket shared by the
                        \* workers, << >> when there is none
    phase1_stats,       \* phase1.py main(): << stats >>
    phase1_tasks,       \* phase1.py main(): tasks, where each worker coroutine stands
    phase1_clock,       \* time.perf_counter() of the prototype, in ticks
    phase1_issued       \* the clock readings at which a request was issued (history)

vars == << args, env, pc, ran, health_check, edge_case_results, pool, wk, now, lock,
           metrics, burst_metrics, joined, report, validation_passed, exit_code,
           rnd, generated, suite_keys, configuration,
           phase1_bucket, phase1_stats, phase1_tasks, phase1_clock, phase1_issued >>

phase1Vars == << phase1_bucket, phase1_stats, phase1_tasks, phase1_clock, phase1_issued >>

\* the comprehensive load test runs without the prototype
NotPhase1 ==
    /\ phase1_bucket = << >>
    /\ phase1_stats = << >>
    /\ phase1_tasks = << >>
    /\ phase1_clock = 0
    /\ phase1_issued = << >>

poolVars == << pool, wk, now, lock, metrics, burst_metrics >>

NoneV == "None"

\* no configuration call made yet.  pushed: what each push of setup_configurations met,
\* in algorithm order; success: its return value; keys: what setup_key_config met in
\* each scenario, in suite order
NoConfiguration == [pushed |-> << >>, success |-> NoneV, keys |-> << >>]

\* Optional[int]: << >> is None, << n >> is the integer n
NoInt == << >>
Some(n) == << n >>

-----------------------------------------------------------------------------
(* Bounds of the model *)

\* --concurrency is drawn from 1..MaxConcurrency
MaxConcurrency == 2
\* --duration-seconds is drawn from 1..MaxDuration
MaxDuration == 2
\* stand-in, in seconds, for the burst window (burst_duration, 30 in the source)
BurstSeconds == 1
\* a pool thread begins executing at most this many ticks after the pool was created
MaxStartDelay == 1
\* an exchange returns or times out within this many ticks (timeout=10 in the source)
MaxLatency == 1
\* at most this many workers of one pool end with an exception
MaxRaised == 1
\* a worker draws at most this many traffic profiles
MaxRequests == 2
\* the ticks to the second of the runs that look at fractions of a second
MaxClock == 2
\* two suite runs are followed over this many ticks of the wall clock
MaxWallClock == 3
\* the logs handed to the statistics hold at most this many outcomes
MaxLog == 3

-----------------------------------------------------------------------------
(* Program constants *)

\* burst_concurrency = config.concurrency * 3
BurstFactor == 3
\* sys.exit(1)
ExitFailure == 1
\* --seed, default
DefaultSeed == 42
\* the names of DEFAULT_ALGORITHM_CONFIGS, in order
Algorithms ==
    << "TOKEN_BUCKET", "SLIDING_WINDOW", "SLIDING_WINDOW_COUNTER", "FIXED_WINDOW",
       "LEAKY_BUCKET" >>

Max(a, b) == IF a >= b THEN a ELSE b

\* The clock of a run advances in ticks, env.clock of them to the second.
\* n seconds, in ticks
Ticks(n) == n * env.clock
\* int(t * 1000) of a time of t ticks
Millis(t) == (t * 1000) \div env.clock

-----------------------------------------------------------------------------
(* Responses of the service, as make_http_request returns or raises them *)

\* failed: conn.request / getresponse raised, re-raised as HTTPException
\* body:   "obj" a JSON object, "nonobj" other JSON, "malformed" not JSON, "" empty
\* allowed: the field of a JSON object body, "true", "false" or NoneV (absent)
\* remaining, retry: remainingTokens and retryAfterSeconds of the body, Optional[int]
\* header: the Retry-After response header, Optional[int]
Resp(st, b, al, rem, ra, hd) ==
    [failed |-> FALSE, status |-> st, body |-> b, allowed |-> al,
     remaining |-> rem, retry |-> ra, header |-> hd]

Transport ==
    [failed |-> TRUE, status |-> 0, body |-> "", allowed |-> NoneV,
     remaining |-> NoInt, retry |-> NoInt, header |-> NoInt]

Allow(rem)   == Resp(200, "obj", "true", Some(rem), NoInt, NoInt)
Deny(ra)     == Resp(200, "obj", "false", Some(0), ra, NoInt)
Deny429(hd)  == Resp(429, "", NoneV, NoInt, NoInt, hd)
NoField      == Resp(200, "obj", NoneV, NoInt, NoInt, NoInt)
Garbage      == Resp(200, "malformed", NoneV, NoInt, NoInt, NoInt)
ServerError  == Resp(500, "malformed", NoneV, NoInt, NoInt, NoInt)

-----------------------------------------------------------------------------
(* worker_thread *)

\* the share of the target rounded up instead of down
PerWorkerRpsCeil(target_rps, concurrency) ==
    Max(1, (target_rps + Max(concurrency, 1) - 1) \div Max(concurrency, 1))

\* per_worker_rps = max(1, config.target_rps // max(config.concurrency, 1))
PerWorkerRps(target_rps, concurrency) ==
    Max(1, target_rps \div Max(concurrency, 1))

\* interval = 1.0 / max(per_worker_rps, 1), in whole ticks
Interval(target_rps, concurrency) ==
    Ticks(1) \div Max(PerWorkerRps(target_rps, concurrency), 1)

\* a burst_config that raises the concurrency and keeps the target RPS
PoolConfigSameTarget(p) ==
    IF p = "burst"
    THEN [duration_seconds |-> BurstSeconds,
          concurrency |-> args.concurrency * BurstFactor,
          target_rps |-> args.target_rps]
    ELSE [duration_seconds |-> args.duration_seconds,
          concurrency |-> args.concurrency,
          target_rps |-> args.target_rps]

\* the TestConfig a pool's workers run with: config in main, burst_config in run_burst_test
PoolConfig(p) ==
    IF p = "burst"
    THEN [duration_seconds |-> BurstSeconds,
          concurrency |-> args.concurrency * BurstFactor,
          target_rps |-> args.target_rps * BurstFactor]
    ELSE [duration_seconds |-> args.duration_seconds,
          concurrency |-> args.concurrency,
          target_rps |-> args.target_rps]

NoMetric == [wid |-> 0, seq |-> 0, timestamp_ms |-> 0, latency_ms |-> 0, status_code |-> 0,
             allowed |-> NoneV, error |-> NoneV, endpoint |-> NoneV, algorithm |-> NoneV]

NoRequest == [endpoint |-> NoneV, algorithm |-> NoneV]

\* no exchange in progress
NoResp == [failed |-> FALSE, status |-> 0, body |-> "", allowed |-> NoneV,
           remaining |-> NoInt, retry |-> NoInt, header |-> NoInt]

\* a future just submitted to the executor.  resp is what make_http_request returned or
\* raised in the iteration under way, metric the RequestMetric built from it
QueuedWorker ==
    [pc |-> "queued", start_time |-> 0, t0 |-> 0, wake |-> 0, request_count |-> 0,
     req |-> NoRequest, resp |-> NoResp, metric |-> NoMetric]

\* the failure of an exchange is swallowed: the metric carries no error
BuildMetricSilent(w, seq, req, t0, t1, r) ==
    [wid |-> w, seq |-> seq, timestamp_ms |-> Millis(t0), latency_ms |-> Millis(t1 - t0),
     status_code |-> r.status,
     allowed |-> IF r.failed THEN "false" ELSE r.allowed,
     error |-> NoneV, endpoint |-> req.endpoint, algorithm |-> req.algorithm]

\* the response body parsed whatever the endpoint
BuildMetricAnyEndpoint(w, seq, req, t0, t1, r) ==
    LET parsed == ~r.failed /\ r.body # ""
        err == IF r.failed THEN "Request failed"
               ELSE IF parsed /\ r.body = "malformed" THEN "Invalid JSON response"
               ELSE IF parsed /\ r.body = "nonobj" THEN "AttributeError"
               ELSE NoneV
        alw == IF parsed /\ r.body = "obj"
               THEN (IF r.allowed = "true" THEN "true" ELSE "false")
               ELSE NoneV
    IN  [wid |-> w, seq |-> seq, timestamp_ms |-> Millis(t0),
         latency_ms |-> Millis(t1 - t0),
         status_code |-> r.status, allowed |-> alw, error |-> err,
         endpoint |-> req.endpoint, algorithm |-> req.algorithm]

\* lines 504-543: the RequestMetric built from one exchange.  wid and seq are
\* ghost fields naming the attempt (worker, iteration) the metric belongs to.
BuildMetric(w, seq, req, t0, t1, r) ==
    LET parsed == ~r.failed /\ req.endpoint = "rate_limit_check" /\ r.body # ""
        err == IF r.failed THEN "Request failed"
               ELSE IF parsed /\ r.body = "malformed" THEN "Invalid JSON response"
               ELSE IF parsed /\ r.body = "nonobj" THEN "AttributeError"
               ELSE NoneV
        \* bool(data.get("allowed", False))
        alw == IF parsed /\ r.body = "obj"
               THEN (IF r.allowed = "true" THEN "true" ELSE "false")
               ELSE NoneV
    IN  [wid |-> w, seq |-> seq, timestamp_ms |-> Millis(t0),
         latency_ms |-> Millis(t1 - t0),
         status_code |-> r.status, allowed |-> alw, error |-> err,
         endpoint |-> req.endpoint, algorithm |-> req.algorithm]

\* a lost update: the append overwrites the slot another worker has just filled
LogAppendRacy(log, m) ==
    IF log # << >> /\ log[Len(log)].wid # m.wid
    THEN [log EXCEPT ![Len(log)] = m]
    ELSE Append(log, m)

\* metrics.append(metric)
LogAppend(log, m) == Append(log, m)

Workers == DOMAIN wk
Terminal(w) == wk[w].pc \in {"stopped", "raised"}
Running(w) == ~Terminal(w)

\* the loop is left one second early
DeadlineReachedEarly(start_time, duration_seconds) ==
    ~(now - start_time < Ticks(duration_seconds - 1))

\* line 490: while time.time() - start_time < config.duration_seconds
DeadlineReached(start_time, duration_seconds) ==
    ~(now - start_time < Ticks(duration_seconds))

\* line 490 and, when the test passes, lines 491-510: the worker rec leaves the loop
\* or draws a traffic profile and starts the clock of a request
LoopTest(rec) ==
    IF DeadlineReached(rec.start_time, PoolConfig(pool).duration_seconds)
    THEN { [rec EXCEPT !.pc = "stopped", !.t0 = 0, !.wake = 0] }
    ELSE { [rec EXCEPT !.pc = "request", !.t0 = now, !.wake = 0, !.req = tp] :
             tp \in env.traffic }

\* the executor thread picks the future up: lines 480-488, then the first loop test
WorkerStart(w) ==
    /\ wk[w].pc = "queued"
    /\ \E nxt \in LoopTest([wk[w] EXCEPT !.start_time = now]) :
          wk' = [wk EXCEPT ![w] = nxt]
    /\ UNCHANGED << phase1Vars, args, env, rnd, generated, suite_keys, configuration, report, pc, ran, health_check, edge_case_results, joined,
                    validation_passed, exit_code, pool, now, lock, metrics, burst_metrics >>

\* lines 512-543: the exchange returns or raises, the metric is built
WorkerExchange(w) ==
    /\ wk[w].pc = "request"
    /\ \E r \in env.load[pool] :
          wk' = [wk EXCEPT ![w].pc = "lock",
                           ![w].resp = r,
                           ![w].metric = BuildMetric(w, wk[w].request_count + 1,
                                                     wk[w].req, wk[w].t0, now, r)]
    /\ UNCHANGED << phase1Vars, args, env, rnd, generated, suite_keys, configuration, report, pc, ran, health_check, edge_case_results, joined,
                    validation_passed, exit_code, pool, now, lock, metrics, burst_metrics >>

\* line 545: with lock
WorkerAcquire(w) ==
    /\ wk[w].pc = "lock"
    /\ lock = 0
    /\ lock' = w
    /\ wk' = [wk EXCEPT ![w].pc = "append"]
    /\ UNCHANGED << phase1Vars, args, env, rnd, generated, suite_keys, configuration, report, pc, ran, health_check, edge_case_results, joined,
                    validation_passed, exit_code, pool, now, metrics, burst_metrics >>

\* lines 551-554 and, without a sleep, the next loop test
Pace(rec) ==
    LET cfg == PoolConfig(pool)
        elapsed == now - rec.t0
        sleep_time == Max(0, Interval(cfg.target_rps, cfg.concurrency) - elapsed)
    IN  IF sleep_time > 0
        THEN { [rec EXCEPT !.pc = "sleep", !.wake = now + sleep_time, !.t0 = 0] }
        ELSE LoopTest(rec)

\* lines 546-554: append, release, count, and the pacing decision
WorkerAppend(w) ==
    /\ wk[w].pc = "append"
    /\ lock = w
    /\ lock' = 0
    /\ IF pool = "burst"
       THEN /\ burst_metrics' = LogAppend(burst_metrics, wk[w].metric)
            /\ UNCHANGED metrics
       ELSE /\ metrics' = LogAppend(metrics, wk[w].metric)
            /\ UNCHANGED burst_metrics
    /\ \E nxt \in Pace([wk[w] EXCEPT !.request_count = @ + 1,
                                     !.req = NoRequest, !.resp = NoResp,
                                     !.metric = NoMetric]) :
          wk' = [wk EXCEPT ![w] = nxt]
    /\ UNCHANGED << phase1Vars, args, env, rnd, generated, suite_keys, configuration, report, pc, ran, health_check, edge_case_results, joined,
                    validation_passed, exit_code, pool, now >>

\* time.sleep(sleep_time) returns, then the next loop test
WorkerWake(w) ==
    /\ wk[w].pc = "sleep"
    /\ now >= wk[w].wake
    /\ \E nxt \in LoopTest(wk[w]) : wk' = [wk EXCEPT ![w] = nxt]
    /\ UNCHANGED << phase1Vars, args, env, rnd, generated, suite_keys, configuration, report, pc, ran, health_check, edge_case_results, joined,
                    validation_passed, exit_code, pool, now, lock, metrics, burst_metrics >>

\* an exception escapes worker_thread outside its try block, where an iteration
\* begins (lines 480-502): the future completes with that exception
WorkerRaise(w) ==
    /\ \/ wk[w].pc = "queued"
       \/ wk[w].pc = "sleep" /\ now >= wk[w].wake
    /\ Cardinality({ v \in Workers : wk[v].pc = "raised" }) < env.max_raised
    /\ wk' = [wk EXCEPT ![w].pc = "raised", ![w].t0 = 0, ![w].wake = 0]
    /\ UNCHANGED << phase1Vars, args, env, rnd, generated, suite_keys, configuration, report, pc, ran, health_check, edge_case_results, joined,
                    validation_passed, exit_code, pool, now, lock, metrics, burst_metrics >>

\* what a running worker is waiting for takes time: a pool thread, the response, the sleep
Waiting(w) ==
    \/ wk[w].pc = "queued" /\ now < env.start_delay
    \/ wk[w].pc = "request" /\ now - wk[w].t0 < env.latency
    \/ wk[w].pc = "sleep" /\ now < wk[w].wake

\* the wall clock advances one tick
Tick ==
    /\ pool # "none"
    /\ \E w \in Workers : Running(w)
    /\ \A w \in Workers : Running(w) => Waiting(w)
    /\ now' = now + 1
    /\ UNCHANGED << phase1Vars, args, env, rnd, generated, suite_keys, configuration, report, pc, ran, health_check, edge_case_results, joined,
                    validation_passed, exit_code, pool, wk, lock, metrics, burst_metrics >>

-----------------------------------------------------------------------------
(* Statistics: compute_percentile, aggregate_metrics, build_timeline *)

\* the latencies of all outcomes, failed ones included
LatenciesAll(ms) == [ i \in DOMAIN ms |-> ms[i].latency_ms ]

\* [m.latency_ms for m in metrics if m.error is None]
Latencies(ms) ==
    LET NoError(m) == m.error = NoneV
        kept == SelectSeq(ms, NoError)
    IN  [ i \in DOMAIN kept |-> kept[i].latency_ms ]

\* latencies.sort(): the k-th element of the result is the value that has fewer than k
\* values below it and at least k values not above it
SortAsc(s) ==
    LET sorted[t \in Seq(Int)] ==
            LET n == Len(t)
                values == { t[j] : j \in 1 .. n }
                Below(v) == Cardinality({ j \in 1 .. n : t[j] < v })
                UpTo(v) == Cardinality({ j \in 1 .. n : t[j] <= v })
            IN  [ k \in 1 .. n |-> CHOOSE v \in values : Below(v) < k /\ k <= UpTo(v) ]
    IN  sorted[s]

\* Floats.  A Python float is an IEEE 754 double: a mantissa of Precision bits m (most
\* significant first, m[1] = 1) whose first bit has weight 2^e, or zero.  Only the
\* non-negative values of the rates occur.  Bit strings are sequences of 0 and 1, most
\* significant bit first.
Precision == 53

FZero == [zero |-> TRUE, m |-> << >>, e |-> 0]

Zeros(n) == [ i \in 1 .. n |-> 0 ]

RECURSIVE BitsOf(_)
\* the binary digits of a natural number, none for 0
BitsOf(n) == IF n = 0 THEN << >> ELSE BitsOf(n \div 2) \o << n % 2 >>

\* without its leading zeros
Strip(bits) ==
    LET ones == { i \in DOMAIN bits : bits[i] = 1 }
    IN  IF ones = {} THEN << >>
        ELSE SubSeq(bits, CHOOSE i \in ones : \A j \in ones : i <= j, Len(bits))

\* x + y for bit strings: the carry into a place comes from the nearest lower place
\* where both have a 1, when one of them has a 1 in every place between
AddBits(x, y) ==
    LET n == (IF Len(x) >= Len(y) THEN Len(x) ELSE Len(y)) + 1
        X == Zeros(n - Len(x)) \o x
        Y == Zeros(n - Len(y)) \o y
        carry == [ i \in 1 .. n |->
                    IF \E j \in (i + 1) .. n :
                          /\ X[j] = 1 /\ Y[j] = 1
                          /\ \A k \in (i + 1) .. (j - 1) : X[k] = 1 \/ Y[k] = 1
                    THEN 1 ELSE 0 ]
    IN  [ i \in 1 .. n |-> (X[i] + Y[i] + carry[i]) % 2 ]

\* the bit string plus one
Inc(bits) == AddBits(bits, << 1 >>)

\* the bit string minus one, for a string that is not all zeros
Dec(bits) ==
    LET last == CHOOSE i \in DOMAIN bits :
                   bits[i] = 1 /\ \A j \in (i + 1) .. Len(bits) : bits[j] = 0
    IN  [ i \in DOMAIN bits |-> IF i < last THEN bits[i] ELSE IF i = last THEN 0 ELSE 1 ]

\* round to nearest, ties to even: the double nearest to the number whose binary digits
\* are bits, the last of weight 2^e_lsb, followed by something non-zero when sticky
Round(bits0, e_lsb, sticky) ==
    LET bits == Strip(bits0)
        n == Len(bits)
    IN  IF n = 0 THEN FZero
        ELSE IF n <= Precision
        THEN [zero |-> FALSE, m |-> bits \o Zeros(Precision - n), e |-> e_lsb + n - 1]
        ELSE LET kept == SubSeq(bits, 1, Precision)
                 guard == bits[Precision + 1]
                 rest == sticky \/ \E i \in (Precision + 2) .. n : bits[i] = 1
                 up == guard = 1 /\ (rest \/ kept[Precision] = 1)
                 r == IF up THEN Strip(Inc(kept)) ELSE kept
             IN  IF Len(r) > Precision
                 THEN [zero |-> FALSE, m |-> SubSeq(r, 1, Precision), e |-> e_lsb + n]
                 ELSE [zero |-> FALSE, m |-> r, e |-> e_lsb + n - 1]

RECURSIVE Pow2Mod(_, _)
\* 2^i modulo t, by squaring
Pow2Mod(i, t) ==
    IF i = 0 THEN 1 % t
    ELSE LET h == Pow2Mod(i \div 2, t)
         IN  (h * h * (IF i % 2 = 1 THEN 2 ELSE 1)) % t

\* the first k binary digits of r / t after the point, for r < t, and what remains:
\* the remainder before digit i is r * 2^(i-1) modulo t
FracBits(r, t, k) ==
    LET before == [ i \in 1 .. (k + 1) |-> (r * Pow2Mod(i - 1, t)) % t ]
    IN  [bits |-> [ i \in 1 .. k |-> IF 2 * before[i] >= t THEN 1 ELSE 0 ],
         rem |-> before[k + 1]]

\* x / t for integers x >= 0 and t > 0
fdiv(x, t) ==
    LET k == Precision + 1 + Len(BitsOf(t))
        f == FracBits(x % t, t, k)
    IN  Round(BitsOf(x \div t) \o f.bits, 0 - k, f.rem # 0)

RECURSIVE MulBits(_, _)
\* the bit string times the natural number c: the string shifted by the places of the
\* ones of c, added up
MulBits(bits, c) ==
    IF c = 0 THEN << >>
    ELSE LET rest == MulBits(bits, c \div 2) \o << 0 >>
         IN  IF c % 2 = 1 THEN AddBits(rest, bits) ELSE rest

\* a * c for a float a and a natural number c
fmul(a, c) ==
    IF a.zero \/ c = 0 THEN FZero
    ELSE Round(MulBits(a.m, c), a.e - (Precision - 1), FALSE)

\* a + b
fadd(a, b) ==
    IF a.zero THEN b
    ELSE IF b.zero THEN a
    ELSE LET la == a.e - (Precision - 1)
             lb == b.e - (Precision - 1)
             l == IF la <= lb THEN la ELSE lb
         IN  Round(AddBits(a.m \o Zeros(la - l), b.m \o Zeros(lb - l)), l, FALSE)

\* float(n) for a natural number n
FromInt(n) == Round(BitsOf(n), 0, FALSE)

\* the share of all outcomes instead of the share of those without error
success_rate_of_total(stats) ==
    IF stats.total > 0 THEN fmul(fdiv(stats.total, stats.total), 100) ELSE FZero

\* line 1276: success_rate = (total - errors) / total * 100 if total > 0 else 0.0
success_rate(stats) ==
    IF stats.total > 0 THEN fmul(fdiv(stats.total - stats.errors, stats.total), 100)
    ELSE FZero

\* line 1277: error_rate = errors / total * 100 if total > 0 else 0.0
error_rate(stats) ==
    IF stats.total > 0 THEN fmul(fdiv(stats.errors, stats.total), 100) ELSE FZero

\* the index rounded up instead of truncated
PercentileIndexCeil(n, permille) == ((n - 1) * permille + 999) \div 1000

\* k = int((len(sorted_values) - 1) * percentile), the percentile given in thousandths
PercentileIndex(n, permille) == ((n - 1) * permille) \div 1000

\* compute_percentile(sorted_values, percentile): sequences are 1-based here
compute_percentile(sorted_values, permille) ==
    IF sorted_values = << >> THEN 0
    ELSE sorted_values[PercentileIndex(Len(sorted_values), permille) + 1]

IsAllowedMetric(m) == m.allowed = "true"
IsDeniedMetric(m) == m.allowed = "false"
IsErrorMetric(m) == m.error # NoneV

RECURSIVE SumRange(_, _, _)
\* s[lo] + ... + s[hi], by halves
SumRange(s, lo, hi) ==
    IF lo > hi THEN 0
    ELSE IF lo = hi THEN s[lo]
    ELSE LET mid == (lo + hi) \div 2
         IN  SumRange(s, lo, mid) + SumRange(s, mid + 1, hi)

\* sum(values)
Sum(s) == SumRange(s, 1, Len(s))

\* the sum of the squares of the values
SumSq(s) == SumRange([ i \in DOMAIN s |-> s[i] * s[i] ], 1, Len(s))

\* statistics.median on a non-empty ascending list, doubled: the middle element, or the
\* mean of the two middle elements
MedianX2(sorted_values) ==
    LET n == Len(sorted_values)
        i == n \div 2
    IN  IF n % 2 = 1 THEN 2 * sorted_values[i + 1]
        ELSE sorted_values[i] + sorted_values[i + 1]

\* an empty run reported as fully successful
ZeroStatsAllSuccess ==
    [total |-> 0, allowed |-> 0, denied |-> 0, errors |-> 0,
     rps_num |-> 0, rps_den |-> 1,
     min_ms |-> 0, max_ms |-> 0, avg_num |-> 0, avg_den |-> 1, median_x2 |-> 0,
     p50_ms |-> 0, p75_ms |-> 0, p90_ms |-> 0, p95_ms |-> 0, p99_ms |-> 0, p999_ms |-> 0,
     var_num |-> 0, var_den |-> 1,
     success_num |-> 100, error_num |-> 0, rate_den |-> 1]

\* the AggregateStats of lines 1254-1259.  A float that is a quotient is kept as the pair
\* of integers it is computed from: rps = rps_num / rps_den, avg_ms = avg_num / avg_den,
\* median_ms = median_x2 / 2, std_dev_ms = sqrt(var_num / var_den),
\* success_rate = success_num / rate_den, error_rate = error_num / rate_den
ZeroStats ==
    [total |-> 0, allowed |-> 0, denied |-> 0, errors |-> 0,
     rps_num |-> 0, rps_den |-> 1,
     min_ms |-> 0, max_ms |-> 0, avg_num |-> 0, avg_den |-> 1, median_x2 |-> 0,
     p50_ms |-> 0, p75_ms |-> 0, p90_ms |-> 0, p95_ms |-> 0, p99_ms |-> 0, p999_ms |-> 0,
     var_num |-> 0, var_den |-> 1,
     success_num |-> 0, error_num |-> 0, rate_den |-> 1]

\* aggregate_metrics below its early return, lines 1261-1298
aggregate_stats(ms, duration_seconds) ==
    LET \* the summary, given the sorted latencies of the outcomes without error
        stats[latencies \in Seq(Int)] ==
        LET n == Len(latencies)
            total == Len(ms)
            errors == Cardinality({ i \in DOMAIN ms : IsErrorMetric(ms[i]) })
        IN
        [total   |-> total,
         allowed |-> Cardinality({ i \in DOMAIN ms : IsAllowedMetric(ms[i]) }),
         denied  |-> Cardinality({ i \in DOMAIN ms : IsDeniedMetric(ms[i]) }),
         errors  |-> errors,
         rps_num |-> total,
         rps_den |-> Max(duration_seconds, 1),
         min_ms  |-> IF n > 0 THEN latencies[1] ELSE 0,
         max_ms  |-> IF n > 0 THEN latencies[n] ELSE 0,
         avg_num |-> IF n > 0 THEN Sum(latencies) ELSE 0,
         avg_den |-> IF n > 0 THEN n ELSE 1,
         median_x2 |-> IF n > 0 THEN MedianX2(latencies) ELSE 0,
         p50_ms  |-> compute_percentile(latencies, 500),
         p75_ms  |-> compute_percentile(latencies, 750),
         p90_ms  |-> compute_percentile(latencies, 900),
         p95_ms  |-> compute_percentile(latencies, 950),
         p99_ms  |-> compute_percentile(latencies, 990),
         p999_ms |-> compute_percentile(latencies, 999),
         var_num |-> IF n > 1 THEN n * SumSq(latencies) - Sum(latencies) * Sum(latencies)
                     ELSE 0,
         var_den |-> IF n > 1 THEN n * (n - 1) ELSE 1,
         success_num |-> IF total > 0 THEN (total - errors) * 100 ELSE 0,
         error_num |-> IF total > 0 THEN errors * 100 ELSE 0,
         rate_den |-> IF total > 0 THEN total ELSE 1]
    IN  stats[SortAsc(Latencies(ms))]

\* aggregate_metrics: if not metrics, the all-zero AggregateStats
aggregate_metrics(ms, duration_seconds) ==
    IF ms = << >> THEN ZeroStats ELSE aggregate_stats(ms, duration_seconds)

\* the second nearest to the timestamp instead of the second it lies in
BucketOfNearest(m) == (m.timestamp_ms + 500) \div 1000

\* sec = m.timestamp_ms // 1000
BucketOf(m) == m.timestamp_ms \div 1000

\* buckets[sec]: the outcomes of one second, in log order
SelectBucket(ms, sec) ==
    LET InBucket(m) == BucketOf(m) = sec
    IN  SelectSeq(ms, InBucket)

\* sorted(buckets.items()): the keys in ascending order
BucketKeys(ms) ==
    LET keys == { BucketOf(ms[i]) : i \in DOMAIN ms }
        RECURSIVE Asc(_)
        Asc(S) == IF S = {} THEN << >>
                  ELSE LET lo == CHOOSE x \in S : \A y \in S : x <= y
                       IN  << lo >> \o Asc(S \ {lo})
    IN  Asc(keys)

\* build_timeline: the emitted (key, entry) pairs in emission order
build_timeline(ms) ==
    LET keys == BucketKeys(ms)
    IN  [ j \in DOMAIN keys |->
            LET bucket == SelectBucket(ms, keys[j])
                agg == aggregate_metrics(bucket, 1)
            IN  [sec |-> keys[j], members |-> bucket,
                 rps_num |-> agg.rps_num, rps_den |-> agg.rps_den,
                 allowed |-> agg.allowed, denied |-> agg.denied, errors |-> agg.errors,
                 p50_ms |-> agg.p50_ms, p95_ms |-> agg.p95_ms, p99_ms |-> agg.p99_ms] ]

-----------------------------------------------------------------------------
(* Edge-case scenarios.  A scenario is given the responses of the service to  *)
(* its rate-limit-check requests, rs[1], rs[2], ..., in the order sent.       *)

ExhaustCapacity == 10
ExhaustExtra == 5
BurstCapacity == 20
BurstSize == 50
TokensCapacity == 15
RetryCapacity == 5
RetryProbes == 5
RefillCapacity == 10
RefillRate == 5
RefillWaitSeconds == 2

\* inside a try block: make_http_request raised, or json.loads / data.get raised
Excepts(r) == r.failed \/ (r.status = 200 /\ r.body # "obj")
\* status == 200 and data.get("allowed") is truthy
SaysAllowed(r) == ~r.failed /\ r.status = 200 /\ r.body = "obj" /\ r.allowed = "true"
\* status == 200 and data.get("allowed") is falsy
SaysDenied(r) == ~r.failed /\ r.status = 200 /\ r.body = "obj" /\ r.allowed # "true"
\* status == 429
Says429(r) == ~r.failed /\ r.status = 429

Count(S) == Cardinality(S)

\* an EdgeCaseResult, or raised = TRUE when the scenario function raised instead
Result(p, a, d) == [raised |-> FALSE, passed |-> p, actual_allowed |-> a, actual_denied |-> d]
Raised == [raised |-> TRUE, passed |-> FALSE, actual_allowed |-> 0, actual_denied |-> 0]

\* the scenario without its margin of one token
test_exhaust_bucket_exact(rs) ==
    LET sent == 1..(ExhaustCapacity + ExhaustExtra)
        allowed_count == Count({ i \in sent : SaysAllowed(rs[i]) })
        denied_count == Count({ i \in sent : SaysDenied(rs[i]) \/ Says429(rs[i]) })
    IN  Result(allowed_count = ExhaustCapacity /\ denied_count = ExhaustExtra,
               allowed_count, denied_count)

\* test_exhaust_bucket, lines 812-882
test_exhaust_bucket(rs) ==
    LET capacity == ExhaustCapacity
        requests_to_send == capacity + ExhaustExtra
        sent == 1..requests_to_send
        allowed_count == Count({ i \in sent : SaysAllowed(rs[i]) })
        denied_count == Count({ i \in sent : SaysDenied(rs[i]) \/ Says429(rs[i]) })
        raised_count == Count({ i \in sent : Excepts(rs[i]) })
        error_count == raised_count
                       + Count({ i \in sent : ~rs[i].failed /\ rs[i].status \notin {200, 429} })
        expected_allowed == capacity
        expected_denied == requests_to_send - capacity
        issues == \/ raised_count > 0
                  \/ allowed_count < expected_allowed - 1
                  \/ allowed_count > expected_allowed + 1
                  \/ denied_count < expected_denied - 1
                  \/ error_count > 0
    IN  Result(~issues, allowed_count, denied_count)

\* the scenario without its margin of two tokens
test_burst_beyond_capacity_exact(rs) ==
    LET sent == 1..BurstSize
        allowed_count == Count({ i \in sent : SaysAllowed(rs[i]) })
        denied_count == Count({ i \in sent : SaysDenied(rs[i]) \/ Says429(rs[i]) })
        raised_count == Count({ i \in sent : Excepts(rs[i]) })
    IN  Result(/\ raised_count = 0
               /\ denied_count >= BurstSize - BurstCapacity
               /\ allowed_count <= BurstCapacity,
               allowed_count, denied_count)

\* test_burst_beyond_capacity, lines 894-954
test_burst_beyond_capacity(rs) ==
    LET capacity == BurstCapacity
        burst_size == BurstSize
        sent == 1..burst_size
        allowed_count == Count({ i \in sent : SaysAllowed(rs[i]) })
        denied_count == Count({ i \in sent : SaysDenied(rs[i]) \/ Says429(rs[i]) })
        raised_count == Count({ i \in sent : Excepts(rs[i]) })
        expected_denied == burst_size - capacity
        issues == \/ raised_count > 0
                  \/ denied_count < expected_denied - 2
                  \/ allowed_count > capacity + 2
    IN  Result(~issues, allowed_count, denied_count)

RECURSIVE CollectRemaining(_, _, _)
\* remaining_tokens_list after requests i..n, lines 975-993
CollectRemaining(rs, i, n) ==
    IF i > n THEN << >>
    ELSE (IF SaysAllowed(rs[i]) /\ rs[i].remaining # NoInt
          THEN << rs[i].remaining[1] >> ELSE << >>)
         \o CollectRemaining(rs, i + 1, n)

\* the scenario without its demand for more than two values
test_token_tracking_any(rs) ==
    LET remaining_tokens_list == CollectRemaining(rs, 1, TokensCapacity)
        n == Len(remaining_tokens_list)
        raised_count == Count({ i \in 1..TokensCapacity : Excepts(rs[i]) })
        is_decreasing == \A i \in 1..(n - 1) :
                            remaining_tokens_list[i] >= remaining_tokens_list[i + 1]
    IN  Result(raised_count = 0 /\ is_decreasing, n, 0)

\* test_token_tracking, lines 966-1026
test_token_tracking(rs) ==
    LET capacity == TokensCapacity
        sent == 1..capacity
        remaining_tokens_list == CollectRemaining(rs, 1, capacity)
        n == Len(remaining_tokens_list)
        raised_count == Count({ i \in sent : Excepts(rs[i]) })
        is_decreasing == \A i \in 1..(n - 1) :
                            remaining_tokens_list[i] >= remaining_tokens_list[i + 1]
        issues == \/ raised_count > 0
                  \/ (n > 2 /\ ~is_decreasing)
                  \/ ~(n > 2)
    IN  Result(~issues, n, 0)

\* the retry-after values one probe response adds to retry_after_values, lines 1069-1096
RetryValues(r) ==
    IF SaysDenied(r)
    THEN (IF r.retry # NoInt /\ r.retry[1] > 0 THEN { r.retry[1] } ELSE {})
    ELSE IF Says429(r) /\ r.body # "nonobj"
    THEN (IF r.body = "obj" /\ r.retry # NoInt /\ r.retry[1] > 0 THEN { r.retry[1] } ELSE {})
         \cup (IF r.header # NoInt THEN { r.header[1] } ELSE {})
    ELSE {}

\* test_retry_after_headers, lines 1038-1124: rs[1..capacity] answer the exhausting
\* requests (made outside any try block), the rest answer the probes
test_retry_after_headers(rs) ==
    LET capacity == RetryCapacity
        exhaust == 1..capacity
        probes == (capacity + 1)..(capacity + RetryProbes)
        denied_count == Count({ i \in probes : SaysDenied(rs[i]) \/ Says429(rs[i]) })
        raised_count == Count({ i \in probes :
                                  Excepts(rs[i]) \/ (Says429(rs[i]) /\ rs[i].body = "nonobj") })
        retry_after_values == UNION { RetryValues(rs[i]) : i \in probes }
        issues == \/ raised_count > 0
                  \/ denied_count = 0
                  \/ retry_after_values = {}
                  \/ \E v \in retry_after_values : v <= 0
    IN  IF \E i \in exhaust : rs[i].failed
        THEN Raised
        ELSE Result(~issues, 0, denied_count)

\* status == 200 and json.loads(body).get("allowed"), outside any try block
RaisesUnguarded(r) == r.failed \/ (r.status = 200 /\ r.body # "obj")

\* test_gradual_refill, lines 1136-1204: rs answers the requests before the wait,
\* rs2 those after it
test_gradual_refill(rs, rs2) ==
    LET capacity == RefillCapacity
        sent == 1..capacity
        allowed_initial == Count({ i \in sent : SaysAllowed(rs[i]) })
        allowed_after_refill == Count({ i \in sent : SaysAllowed(rs2[i]) })
        expected_refilled == RefillRate * RefillWaitSeconds
        \* allowed_after_refill < expected_refilled * 0.7
        issues == \/ allowed_after_refill * 10 < expected_refilled * 7
                  \/ allowed_initial # capacity
    IN  IF \E i \in sent : RaisesUnguarded(rs[i]) \/ RaisesUnguarded(rs2[i])
        THEN Raised
        ELSE Result(~issues, allowed_after_refill, 0)

\* Behaviours of the service towards one scenario's key, by request number i (counted
\* within the part of the scenario before / after its wait) and configured capacity c
EdgeProfiles == { "bucket", "bucket429", "open", "garbage", "down", "dieslate", "norefill" }

\* a behaviour known by its name, and one spelled out as runs of responses: pre answers
\* the requests before a scenario's wait, post those after it; a run is [kind, n], n
\* responses of one kind, and the last run of a list goes on for as long as requests come
Named(name) == [name |-> name, pre |-> << >>, post |-> << >>]
Mix(pre, post) == [name |-> "mix", pre |-> pre, post |-> post]
Run(kind, n) == [kind |-> kind, n |-> n]

ResponseKinds ==
    { "allow", "allow_up", "allow_flat", "allow_norem",
      "deny", "deny_noretry", "deny_zero", "deny429", "deny429_bare", "deny429_zero",
      "nofield", "garbage", "error500", "transport" }

\* the i-th response of a scenario with capacity c, of the given kind
KindResp(kind, i, c) ==
    CASE kind = "allow"        -> Allow(Max(c - i, 0))
      [] kind = "allow_up"     -> Allow(i)
      [] kind = "allow_flat"   -> Allow(c)
      [] kind = "allow_norem"  -> Resp(200, "obj", "true", NoInt, NoInt, NoInt)
      [] kind = "deny"         -> Deny(Some(1))
      [] kind = "deny_noretry" -> Deny(NoInt)
      [] kind = "deny_zero"    -> Deny(Some(0))
      [] kind = "deny429"      -> Deny429(Some(1))
      [] kind = "deny429_bare" -> Deny429(NoInt)
      [] kind = "deny429_zero" -> Deny429(Some(0))
      [] kind = "nofield"      -> NoField
      [] kind = "garbage"      -> Garbage
      [] kind = "error500"     -> ServerError
      [] kind = "transport"    -> Transport

RECURSIVE KindAt(_, _)
\* the kind of the i-th response of a list of runs
KindAt(runs, i) ==
    IF Len(runs) = 1 \/ i <= runs[1].n THEN runs[1].kind
    ELSE KindAt(Tail(runs), i - runs[1].n)

ProfileResp(p, i, c, afterWait) ==
    CASE p.name = "bucket"    -> IF i <= c THEN Allow(c - i) ELSE Deny(Some(1))
      [] p.name = "bucket429" -> IF i <= c THEN Allow(c - i) ELSE Deny429(Some(1))
      [] p.name = "open"      -> Allow(c)
      [] p.name = "garbage"   -> Garbage
      [] p.name = "down"      -> Transport
      [] p.name = "dieslate"  -> IF i <= c /\ ~afterWait THEN Allow(c - i) ELSE Transport
      [] p.name = "norefill"  -> IF i <= c /\ ~afterWait THEN Allow(c - i) ELSE Deny(Some(1))
      [] p.name = "mix"       -> KindResp(KindAt(IF afterWait THEN p.post ELSE p.pre, i), i, c)

ProfileSeq(p, n, c, afterWait) == [ i \in 1..n |-> ProfileResp(p, i, c, afterWait) ]

\* run_edge_case_tests, lines 761-774: the k-th scenario run against behaviour p
Scenario(k, p) ==
    CASE k = 1 -> test_exhaust_bucket(
                      ProfileSeq(p, ExhaustCapacity + ExhaustExtra, ExhaustCapacity, FALSE))
      [] k = 2 -> test_burst_beyond_capacity(ProfileSeq(p, BurstSize, BurstCapacity, FALSE))
      [] k = 3 -> test_token_tracking(ProfileSeq(p, TokensCapacity, TokensCapacity, FALSE))
      [] k = 4 -> test_retry_after_headers(
                      ProfileSeq(p, RetryCapacity + RetryProbes, RetryCapacity, FALSE))
      [] k = 5 -> test_gradual_refill(ProfileSeq(p, RefillCapacity, RefillCapacity, FALSE),
                                      ProfileSeq(p, RefillCapacity, RefillCapacity, TRUE))

NumScenarios == 5

-----------------------------------------------------------------------------
(* Health checks and post-test validation *)

\* what GET /actuator/health may produce, and what the other two probes may produce
HealthKinds == { "up", "not_up", "http_error", "garbage", "transport" }
ProbeKinds == { "ok", "http_error", "transport" }

\* run_health_checks, lines 222-320: the issues list, from the outcomes of its three probes
HealthIssues(h, m, r) ==
    (CASE h = "up" -> {}
       [] h = "not_up" -> { "Service status is not UP" }
       [] h = "http_error" -> { "Health endpoint returned non-200" }
       [] OTHER -> { "Failed to reach health endpoint" })
    \cup (CASE m = "ok" -> {}
            [] m = "http_error" -> { "Metrics endpoint returned non-200" }
            [] OTHER -> { "Failed to reach metrics endpoint" })
    \cup (CASE r = "ok" -> {}
            [] r = "http_error" -> { "Rate limit check endpoint returned non-200" }
            [] OTHER -> { "Failed to test rate limit endpoint" })

\* passed = len(issues) == 0
run_health_checks(h, m, r) == HealthIssues(h, m, r) = {}

\* if overall_stats.error_rate > 5.0
ErrorRateThreshold == 5

\* the validation without its error-rate check
run_post_test_validation_no_rate(overall_stats, strict, h) ==
    /\ ~(overall_stats.p95_ms > 100 /\ strict)
    /\ ~(overall_stats.p99_ms > 200 /\ strict)
    /\ h = "up"

\* the validation with a threshold that an error rate of exactly 5% already breaches
run_post_test_validation_inclusive(overall_stats, strict, h) ==
    /\ ~(overall_stats.error_num >= ErrorRateThreshold * overall_stats.rate_den)
    /\ run_post_test_validation_no_rate(overall_stats, strict, h)

\* a validation that a failed edge-case scenario fails as well
run_post_test_validation_and_edge_cases(overall_stats, strict, h) ==
    LET error_issue == overall_stats.error_num > ErrorRateThreshold * overall_stats.rate_den
        p95_issue == overall_stats.p95_ms > 100 /\ strict
        p99_issue == overall_stats.p99_ms > 200 /\ strict
        health_issue == h # "up"
        edge_issue == \E i \in DOMAIN edge_case_results : ~edge_case_results[i]
    IN  ~(error_issue \/ p95_issue \/ p99_issue \/ health_issue \/ edge_issue)

\* run_post_test_validation, lines 1611-1668: h is the outcome of its health request
run_post_test_validation(overall_stats, strict, h) ==
    LET error_issue == overall_stats.error_num > ErrorRateThreshold * overall_stats.rate_den
        p95_issue == overall_stats.p95_ms > 100 /\ strict
        p99_issue == overall_stats.p99_ms > 200 /\ strict
        health_issue == h # "up"
    IN  ~(error_issue \/ p95_issue \/ p99_issue \/ health_issue)

Bool(b) == IF b THEN "true" ELSE "false"

-----------------------------------------------------------------------------
(* main *)

\* lines 1784-1790: pre-flight health checks, and the strict abort
PreFlight ==
    /\ pc = "health"
    /\ IF args.skip_health_checks
       THEN /\ pc' = "setup"
            /\ UNCHANGED << ran, health_check, exit_code >>
       ELSE \E h \in HealthKinds, m \in ProbeKinds, r \in ProbeKinds :
               LET passed == run_health_checks(h, m, r)
               IN  /\ health_check' = Bool(passed)
                   /\ ran' = Append(ran, "health")
                   /\ IF ~passed /\ args.strict_validation
                      THEN /\ exit_code' = Some(ExitFailure)
                           /\ pc' = "exited"
                      ELSE /\ pc' = "setup"
                           /\ UNCHANGED exit_code
    /\ UNCHANGED << phase1Vars, args, env, rnd, generated, suite_keys, configuration, report, edge_case_results, joined, validation_passed, poolVars >>

\* The two states of an http.client connection that matter to its next request: ready
\* for one, or left with a request sent whose response was never read.
Idle == "Idle"
RequestSent == "Request-sent"

\* what a configuration call can meet on the wire: a 200 or 201, another status, the
\* peer closing the connection without a response, no response within the timeout
ConfigKinds == { "ok", "http_error", "disconnected", "timeout" }
\* what the read-back of a key's configuration can meet besides: a body that is no JSON
VerifyKinds == ConfigKinds \cup { "garbage" }

\* make_http_request, lines 398-405, on connection conn when the exchange would meet
\* `met`: conn.request() refuses to start on a connection in state Request-sent
\* (CannotSendRequest), a timeout leaves the connection in that state, a connection the
\* peer closed is reset and reopened by the next request; every exception leaves as
\* HTTPException
make_http_request(conn, met) ==
    IF conn = RequestSent
    THEN [met |-> "not_sent", raised |-> TRUE, conn |-> RequestSent]
    ELSE CASE met = "timeout"      -> [met |-> met, raised |-> TRUE, conn |-> RequestSent]
           [] met = "disconnected" -> [met |-> met, raised |-> TRUE, conn |-> Idle]
           [] OTHER                -> [met |-> met, raised |-> FALSE, conn |-> Idle]

RECURSIVE setup_loop(_, _, _, _)
\* lines 1686-1713: the loop over the algorithms on the one connection of line 1682,
\* after the pushes recorded in pushed
setup_loop(outcomes, conn, pushed, success) ==
    IF Len(pushed) = Len(outcomes)
    THEN [pushed |-> pushed, success |-> success]
    ELSE LET r == make_http_request(conn, outcomes[Len(pushed) + 1])
         IN  setup_loop(outcomes, r.conn, Append(pushed, r.met),
                        success /\ ~r.raised /\ r.met = "ok")

\* setup_configurations, lines 1675-1717: outcomes[i] is what the push for the i-th
\* algorithm would meet on the wire
setup_configurations(outcomes) == setup_loop(outcomes, Idle, << >>, TRUE)

\* setup_key_config, lines 1207-1236, on the scenario's connection: the push, and after
\* a 200/201 the read-back; whatever is raised inside is caught at line 1235
setup_key_config(conn, met, verify) ==
    LET push == make_http_request(conn, met)
        back == make_http_request(push.conn, verify)
        read == ~push.raised /\ push.met = "ok"
        thrown == push.raised \/ (read /\ (back.raised \/ back.met = "garbage"))
        caught == thrown
    IN  [raised |-> thrown /\ ~caught,
         warned |-> thrown \/ push.met # "ok",
         conn |-> IF read THEN back.conn ELSE push.conn]

\* the service as the check requests of a scenario reach it over the connection that
\* setup_key_config left behind
Reached(conn, p) == IF conn = RequestSent THEN Named("down") ELSE p

\* lines 1792-1795: setup_configurations; its result only selects a warning
SetupConfigurations ==
    /\ pc = "setup"
    /\ pc' = "warmup"
    /\ IF args.skip_setup
       THEN UNCHANGED << ran, configuration >>
       ELSE \E outcomes \in [ DOMAIN args.algorithms -> env.setup_config ] :
               LET r == setup_configurations(outcomes)
               IN  /\ ran' = Append(ran, "setup")
                   /\ configuration' =
                          [ configuration EXCEPT !.pushed = r.pushed,
                                                 !.success = Bool(r.success) ]
    /\ UNCHANGED << phase1Vars, args, env, rnd, generated, suite_keys, report, health_check, edge_case_results, joined, validation_passed,
                    exit_code, poolVars >>

\* lines 1797-1801: time.sleep(config.warmup_seconds)
Warmup ==
    /\ pc = "warmup"
    /\ pc' = "edge"
    /\ ran' = IF args.warmup_seconds > 0 THEN Append(ran, "warmup") ELSE ran
    /\ UNCHANGED << phase1Vars, args, env, rnd, generated, suite_keys, configuration, report, health_check, edge_case_results, joined, validation_passed,
                    exit_code, poolVars >>

\* line 1804 and lines 761-774: the next scenario of run_edge_case_tests runs against
\* some behaviour of the service; an exception it raises leaves main() uncaught
EdgeScenario ==
    /\ pc = "edge"
    /\ LET k == Len(edge_case_results) + 1
       IN  \E c \in env.key_config, p \in env.edge :
              LET cfg == setup_key_config(Idle, c[1], c[2])
                  res == IF cfg.raised THEN Raised ELSE Scenario(k, Reached(cfg.conn, p))
              IN  /\ ran' = IF k = 1 THEN Append(ran, "edge") ELSE ran
                  /\ configuration' =
                         [ configuration EXCEPT
                             !.keys = Append(@, [met |-> c, conn |-> cfg.conn]) ]
                  /\ IF res.raised
                     THEN /\ pc' = "crashed"
                          /\ exit_code' = Some(ExitFailure)
                          /\ UNCHANGED edge_case_results
                     ELSE /\ edge_case_results' = Append(edge_case_results, res.passed)
                          /\ pc' = IF k = NumScenarios THEN "load" ELSE "edge"
                          /\ UNCHANGED exit_code
    /\ UNCHANGED << phase1Vars, args, env, rnd, generated, suite_keys, report, health_check, joined, validation_passed, poolVars >>

NewPool(n) == [ w \in 1..n |-> QueuedWorker ]

RECURSIVE SumCounts(_, _)
\* the loop iterations completed by workers 1..n
SumCounts(f, n) == IF n = 0 THEN 0 ELSE f[n].request_count + SumCounts(f, n - 1)

NoJoin == << >>

\* the wait ends with the first future that completes
CompletedFirst == \E w \in Workers : Terminal(w)

\* lines 1822-1827 and 608-612, then the exit of the with block: the loop over
\* as_completed(futures) has seen every future and the executor has shut down
Completed == \A w \in Workers : Terminal(w)

\* lines 1811-1820: the main pool is created and every worker submitted
StartMainLoad ==
    /\ pc = "load"
    /\ pc' = "join"
    /\ ran' = Append(ran, "load")
    /\ pool' = "main"
    /\ wk' = NewPool(args.concurrency)
    /\ now' = 0
    /\ lock' = 0
    /\ metrics' = << >>
    /\ UNCHANGED << phase1Vars, args, env, rnd, generated, suite_keys, configuration, report, health_check, edge_case_results, joined, validation_passed,
                    exit_code, burst_metrics >>

\* the exception of a worker leaves the loop over the futures, as it does where
\* future.result() is called outside a try
ResultPropagatesUnguarded(w) == wk[w].pc = "raised"

\* what future.result() does with a worker's exception inside main's try (lines 1823-1827):
\* TRUE when the exception leaves the loop
ResultPropagates(w) == FALSE

\* lines 1822-1833: every future has completed, the executor is shut down,
\* actual_duration and len(metrics) are taken
JoinMainLoad ==
    /\ pc = "join"
    /\ pool = "main"
    /\ Completed
    /\ IF \E w \in Workers : wk[w].pc = "raised" /\ ResultPropagates(w)
       THEN /\ pc' = "crashed"
            /\ exit_code' = Some(ExitFailure)
            /\ UNCHANGED joined
       ELSE /\ pc' = "burst"
            /\ joined' = << [collected |-> Len(metrics),
                             actual_duration |-> now \div env.clock,
                             attempts |-> SumCounts(wk, Len(wk)),
                             raised |-> Cardinality({ w \in Workers : wk[w].pc = "raised" })] >>
            /\ UNCHANGED exit_code
    /\ pool' = "none"
    /\ wk' = << >>
    /\ now' = 0
    /\ lock' = 0
    /\ UNCHANGED << phase1Vars, args, env, rnd, generated, suite_keys, configuration, report, ran, health_check, edge_case_results, validation_passed,
                    metrics, burst_metrics >>

\* lines 1835-1838 and 572-606: the burst pool, or nothing when the burst test is skipped
StartBurst ==
    /\ pc = "burst"
    /\ IF args.skip_burst_test
       THEN /\ pc' = "benchmark"
            /\ UNCHANGED << ran, poolVars >>
       ELSE /\ pc' = "burst_join"
            /\ ran' = Append(ran, "burst")
            /\ pool' = "burst"
            /\ wk' = NewPool(PoolConfig("burst").concurrency)
            /\ now' = 0
            /\ lock' = 0
            /\ burst_metrics' = << >>
            /\ UNCHANGED metrics
    /\ UNCHANGED << phase1Vars, args, env, rnd, generated, suite_keys, configuration, report, health_check, edge_case_results, joined, validation_passed,
                    exit_code >>

\* lines 608-620: the burst futures have completed; run_burst_test returns its log
JoinBurst ==
    /\ pc = "burst_join"
    /\ pool = "burst"
    /\ Completed
    /\ pc' = "benchmark"
    /\ pool' = "none"
    /\ wk' = << >>
    /\ now' = 0
    /\ lock' = 0
    /\ UNCHANGED << phase1Vars, args, env, rnd, generated, suite_keys, configuration, report, ran, health_check, edge_case_results, joined,
                    validation_passed, exit_code, metrics, burst_metrics >>

\* the benchmark calls and the regression-analysis calls in swapped order
BenchmarkAfterRegression ==
    /\ pc = "benchmark"
    /\ pc' = "report"
    /\ ran' = ran \o (IF args.skip_performance_test THEN << >> ELSE << "performance" >>)
                  \o (IF args.skip_benchmark_test THEN << >> ELSE << "benchmark" >>)
    /\ UNCHANGED << phase1Vars, args, env, rnd, generated, suite_keys, configuration, report, health_check, edge_case_results, joined,
                    validation_passed, exit_code, poolVars >>

\* lines 1840-1843: run_benchmark_tests, every failure caught inside it
Benchmark ==
    /\ pc = "benchmark"
    /\ pc' = "performance"
    /\ ran' = IF args.skip_benchmark_test THEN ran ELSE Append(ran, "benchmark")
    /\ UNCHANGED << phase1Vars, args, env, rnd, generated, suite_keys, configuration, report, health_check, edge_case_results, joined, validation_passed,
                    exit_code, poolVars >>

\* lines 1845-1848: run_performance_tests, every failure caught inside it
Performance ==
    /\ pc = "performance"
    /\ pc' = "report"
    /\ ran' = IF args.skip_performance_test THEN ran ELSE Append(ran, "performance")
    /\ UNCHANGED << phase1Vars, args, env, rnd, generated, suite_keys, configuration, report, health_check, edge_case_results, joined, validation_passed,
                    exit_code, poolVars >>

NoReport == << >>

\* lines 1393-1414: edge_case_summary, None without results
NoSummary == [total_tests |-> 0, passed |-> 0, failed |-> 0, present |-> FALSE]

\* the summary counts a failed scenario as passed
edge_case_summary_all_passed(results) ==
    IF results = << >> THEN NoSummary
    ELSE [total_tests |-> Len(results), passed |-> Len(results), failed |-> 0,
          present |-> TRUE]

edge_case_summary(results) ==
    IF results = << >> THEN NoSummary
    ELSE LET passed_count == Cardinality({ i \in DOMAIN results : results[i] })
         IN  [total_tests |-> Len(results), passed |-> passed_count,
              failed |-> Len(results) - passed_count, present |-> TRUE]

\* lines 1351-1357: aggregate_metrics over the outcomes of each algorithm
algorithm_stats(all_metrics, duration_seconds) ==
    LET Of(algo) == LET Is(m) == m.algorithm = algo IN SelectSeq(all_metrics, Is)
    IN  [ algo \in { all_metrics[i].algorithm : i \in DOMAIN all_metrics } |->
            aggregate_metrics(Of(algo), duration_seconds) ]

\* lines 1359-1366: aggregate_metrics over the outcomes of each endpoint
endpoint_stats(all_metrics, duration_seconds) ==
    LET Of(endpoint) == LET Is(m) == m.endpoint = endpoint IN SelectSeq(all_metrics, Is)
    IN  [ endpoint \in { all_metrics[i].endpoint : i \in DOMAIN all_metrics } |->
            aggregate_metrics(Of(endpoint), duration_seconds) ]

\* the outcomes of an algorithm grouped by endpoint over the whole log
algo_endpoint_stats_all(all_metrics, duration_seconds) ==
    [ algo \in { all_metrics[i].algorithm : i \in DOMAIN all_metrics } |->
         endpoint_stats(all_metrics, duration_seconds) ]

\* lines 1368-1378: aggregate_metrics over the outcomes of each endpoint of each
\* algorithm
algo_endpoint_stats(all_metrics, duration_seconds) ==
    LET Of(algo) == LET Is(m) == m.algorithm = algo IN SelectSeq(all_metrics, Is)
    IN  [ algo \in { all_metrics[i].algorithm : i \in DOMAIN all_metrics } |->
            endpoint_stats(Of(algo), duration_seconds) ]

\* the outcomes of the burst pool are handed over with those of the main pool
all_metrics_with_burst == metrics \o burst_metrics

\* lines 1851-1853: the all_metrics argument of generate_reports
all_metrics == metrics

\* lines 1850-1860 and 1347-1366, 1453: generate_reports computes the overall summary,
\* the breakdowns and the timeline of the main log and writes them out
Report ==
    /\ pc = "report"
    /\ pc' = "validation"
    /\ ran' = Append(ran, "report")
    /\ report' = << [overall |-> aggregate_metrics(all_metrics, joined[1].actual_duration),
                     algorithms |-> algorithm_stats(all_metrics, joined[1].actual_duration),
                     endpoints |-> endpoint_stats(all_metrics, joined[1].actual_duration),
                     algo_endpoints |->
                         algo_endpoint_stats(all_metrics, joined[1].actual_duration),
                     timeline |-> build_timeline(all_metrics),
                     edge_cases |-> edge_case_summary(edge_case_results)] >>
    /\ UNCHANGED << phase1Vars, args, env, rnd, generated, suite_keys, configuration, health_check, edge_case_results, joined, validation_passed,
                    exit_code, poolVars >>

\* lines 1862-1864: aggregate_metrics over the main log, run_post_test_validation
PostValidation ==
    /\ pc = "validation"
    /\ \E h \in env.health_after :
          validation_passed' =
              Bool(run_post_test_validation(
                       aggregate_metrics(metrics, joined[1].actual_duration),
                       args.strict_validation, h))
    /\ pc' = "finish"
    /\ ran' = Append(ran, "validation")
    /\ UNCHANGED << phase1Vars, args, env, rnd, generated, suite_keys, configuration, report, health_check, edge_case_results, joined, exit_code, poolVars >>

\* lines 1874-1876: sys.exit(1) in strict mode after a failed validation, else main returns
Finish ==
    /\ pc = "finish"
    /\ pc' = "exited"
    /\ exit_code' = IF args.strict_validation /\ validation_passed = "false"
                    THEN Some(ExitFailure) ELSE Some(0)
    /\ UNCHANGED << phase1Vars, args, env, rnd, generated, suite_keys, configuration, report, ran, health_check, edge_case_results, joined,
                    validation_passed, poolVars >>

-----------------------------------------------------------------------------
(* Specifications *)

\* the (endpoint, algorithm) part of the tuple generate_traffic_profile returns
TrafficProfiles == [endpoint : {"rate_limit_check"}, algorithm : {"TOKEN_BUCKET"}]

\* parse_args: the command line.  full = FALSE skips setup, warmup, benchmark and
\* regression; --target-rps equals --concurrency, so that a worker paces at 1 rps
RunArgs(skip_health, strict, burst, full, c, d) ==
    [ skip_health_checks |-> skip_health, strict_validation |-> strict,
      skip_burst_test |-> ~burst, skip_setup |-> ~full,
      warmup_seconds |-> IF full THEN 1 ELSE 0,
      skip_benchmark_test |-> ~full, skip_performance_test |-> ~full,
      concurrency |-> c, target_rps |-> c, duration_seconds |-> d,
      seed |-> DefaultSeed, algorithms |-> Algorithms ]

\* the environment of one run: how the service treats the scenarios' keys, what it answers
\* to the workers of each pool, how many workers of a pool may die of an exception, how
\* long a pool thread may take to start and an exchange to return (ticks), how many ticks
\* make a second, what GET /actuator/health may produce once the load is over, and what
\* the configuration calls of setup_configurations and of the scenarios may meet
RunEnv(edge, main_load, burst_load, raised, delay, latency) ==
    [ edge |-> { Named(name) : name \in edge },
      load |-> [main |-> main_load, burst |-> burst_load],
      traffic |-> TrafficProfiles, max_raised |-> raised,
      start_delay |-> delay, latency |-> latency, clock |-> 1,
      health_after |-> HealthKinds,
      setup_config |-> { "ok" }, key_config |-> { << "ok", "ok" >> } ]

\* what a service of edge behaviour p answers to a worker's check request
LoadOf(p) ==
    CASE p = "down" -> { Transport }
      [] p = "garbage" -> { Garbage }
      [] p = "open" -> { Allow(1) }
      [] OTHER -> { Allow(1), Deny(Some(1)) }

\* the state main() starts in, given its command line a and the environment e
InitWith(a, e) ==
    /\ args = a
    /\ env = e
    /\ pc = "health"
    /\ ran = << >>
    /\ health_check = NoneV
    /\ edge_case_results = << >>
    /\ pool = "none"
    /\ wk = << >>
    /\ now = 0
    /\ lock = 0
    /\ metrics = << >>
    /\ burst_metrics = << >>
    /\ joined = NoJoin
    /\ report = NoReport
    /\ validation_passed = NoneV
    /\ exit_code = NoInt
    /\ rnd = << >>
    /\ generated = << >>
    /\ suite_keys = << >>
    /\ configuration = NoConfiguration
    /\ NotPhase1

\* Whole runs with one worker: every flag combination against every service behaviour
\* and no burst; a service whose behaviour changes from scenario to scenario; and the
\* full default run, burst included, against a healthy service
Init ==
    \/ \E skip_health \in BOOLEAN, strict \in BOOLEAN, full \in BOOLEAN, p \in EdgeProfiles :
          InitWith(RunArgs(skip_health, strict, FALSE, full, 1, 1),
                   RunEnv({p}, LoadOf(p), {}, MaxRaised, 1, 1))
    \/ \E strict \in BOOLEAN :
          InitWith(RunArgs(FALSE, strict, FALSE, FALSE, 1, 1),
                   RunEnv(EdgeProfiles, { Allow(1), Transport }, {}, 0, 0, 0))
    \/ \E strict \in BOOLEAN :
          InitWith(RunArgs(FALSE, strict, TRUE, TRUE, 1, 1),
                   RunEnv({"bucket"}, { Allow(1) }, { Allow(1) }, 0, 0, 0))

WorkerStep(w) ==
    \/ WorkerStart(w)
    \/ WorkerExchange(w)
    \/ WorkerAcquire(w)
    \/ WorkerAppend(w)
    \/ WorkerWake(w)
    \/ WorkerRaise(w)

Next ==
    \/ PreFlight
    \/ SetupConfigurations
    \/ Warmup
    \/ EdgeScenario
    \/ StartMainLoad
    \/ JoinMainLoad
    \/ StartBurst
    \/ JoinBurst
    \/ Benchmark
    \/ Performance
    \/ Report
    \/ PostValidation
    \/ Finish
    \/ Tick
    \/ \E w \in Workers : WorkerStep(w)

Spec == Init /\ [][Next]_vars

\* Pools: MaxConcurrency workers that start up to MaxStartDelay late, of which MaxRaised
\* may die; two workers over MaxDuration seconds against a service that takes up to
\* MaxLatency; and a burst pool of BurstFactor workers over BurstSeconds.  The
\* service answers or fails in transport.
PoolInit ==
    \/ InitWith(RunArgs(TRUE, FALSE, FALSE, FALSE, MaxConcurrency, 1),
                RunEnv({"bucket"}, { Allow(1), Transport }, {}, MaxRaised, MaxStartDelay, 1))
    \/ InitWith(RunArgs(TRUE, FALSE, FALSE, FALSE, 2, MaxDuration),
                RunEnv({"bucket"}, { Allow(1), Transport }, {}, 1, 0, MaxLatency))
    \/ InitWith(RunArgs(TRUE, FALSE, TRUE, FALSE, 1, 1),
                RunEnv({"bucket"}, { Allow(1) }, { Allow(1), Transport }, 1, 0, 0))

PoolSpec == PoolInit /\ [][Next]_vars

\* Pools under fair scheduling: time passes, a worker that can take a step is scheduled,
\* and main() runs when it can
FairPoolInit ==
    \/ InitWith(RunArgs(TRUE, FALSE, FALSE, FALSE, MaxConcurrency, 1),
                RunEnv({"bucket"}, { Allow(1), Transport }, {}, MaxRaised, 0, 1))
    \/ InitWith(RunArgs(TRUE, FALSE, FALSE, FALSE, 1, MaxDuration),
                RunEnv({"bucket"}, { Allow(1), Transport }, {}, 0, MaxStartDelay, MaxLatency))
    \/ InitWith(RunArgs(TRUE, FALSE, TRUE, FALSE, 1, 1),
                RunEnv({"bucket"}, { Allow(1) }, { Transport }, 0, 0, 0))

FairPoolSpec ==
    /\ FairPoolInit
    /\ [][Next]_vars
    /\ WF_vars(Tick)
    /\ WF_vars(\E w \in Workers : WorkerStep(w))
    /\ WF_vars(PreFlight \/ SetupConfigurations \/ Warmup \/ EdgeScenario \/ StartMainLoad
               \/ JoinMainLoad \/ StartBurst \/ JoinBurst \/ Benchmark \/ Performance
               \/ Report \/ PostValidation \/ Finish)

\* Load phase against a service that answers a check request in every way: one worker
\* over MaxDuration seconds, and a burst pool against a service that answers 429
NonObject == Resp(200, "nonobj", NoneV, NoInt, NoInt, NoInt)
Deny429Body == Resp(429, "obj", "false", Some(0), Some(1), NoInt)

\* requests to the check endpoint and to one whose body is not parsed, drawn for either
\* of two algorithms
LoadTraffic ==
    [endpoint : {"rate_limit_check", "admin_stats"},
     algorithm : {"TOKEN_BUCKET", "FIXED_WINDOW"}]

LoadAnswers ==
    { Allow(1), Deny(Some(1)), NoField, Garbage, NonObject, ServerError,
      Deny429(NoInt), Deny429(Some(1)), Deny429Body, Transport }

LoadInit ==
    \/ InitWith(RunArgs(TRUE, FALSE, FALSE, FALSE, 1, MaxDuration),
                [ RunEnv({"bucket"}, LoadAnswers, {}, 1, 0, 0)
                     EXCEPT !.traffic = LoadTraffic ])
    \/ InitWith(RunArgs(TRUE, FALSE, TRUE, FALSE, 1, 1),
                RunEnv({"bucket"}, { Allow(1) }, { Deny429(NoInt), Deny429Body }, 0, 0, 0))

LoadSpec == LoadInit /\ [][Next]_vars

\* Pacing: one worker on a clock of MaxClock ticks to the second, over 1..MaxDuration
\* seconds, against a service that takes up to just under two seconds to answer; and a
\* burst pool
PaceInit ==
    \/ \E d \in 1 .. MaxDuration :
          InitWith(RunArgs(TRUE, FALSE, FALSE, FALSE, 1, d),
                   [ RunEnv({"bucket"}, { Allow(1) }, {}, 1, 0, 2 * MaxClock - 1)
                        EXCEPT !.clock = MaxClock ])
    \/ InitWith(RunArgs(TRUE, FALSE, TRUE, FALSE, 1, 1),
                RunEnv({"bucket"}, { Allow(1) }, { Allow(1) }, 0, 0, 0))

PaceSpec == PaceInit /\ [][Next]_vars

\* Configuration calls: full runs whose pushes in setup_configurations meet every
\* combination of outcomes; runs whose scenarios meet every outcome of the push and of
\* the read-back in setup_key_config; and a run with a burst.  The check requests are
\* always answered by a healthy service.
KeyConfigs ==
    { << met, "ok" >> : met \in ConfigKinds }
        \cup { << "ok", "timeout" >>, << "ok", "garbage" >> }

ConfigInit ==
    \/ InitWith(RunArgs(TRUE, FALSE, FALSE, TRUE, 1, 1),
                [ RunEnv({"bucket"}, { Allow(1) }, {}, 0, 0, 0)
                     EXCEPT !.setup_config = ConfigKinds ])
    \/ InitWith(RunArgs(TRUE, FALSE, FALSE, FALSE, 1, 1),
                [ RunEnv({"bucket"}, { Allow(1) }, {}, 0, 0, 0)
                     EXCEPT !.key_config = KeyConfigs ])
    \/ InitWith(RunArgs(TRUE, FALSE, TRUE, TRUE, 1, 1),
                [ RunEnv({"bucket"}, { Allow(1) }, { Allow(1) }, 1, 0, 0)
                     EXCEPT !.setup_config = { "ok", "http_error" } ])

ConfigSpec == ConfigInit /\ [][Next]_vars

\* Statistics: generate_reports and run_post_test_validation applied to every log of at
\* most MaxLog outcomes, with timestamps on both sides of a second boundary
SampleMetric(ts, lat, kind) ==
    [wid |-> 1, seq |-> 0, timestamp_ms |-> ts, latency_ms |-> lat,
     status_code |-> IF kind = "error" THEN 0 ELSE 200,
     allowed |-> CASE kind = "allowed" -> "true" [] kind = "denied" -> "false"
                   [] OTHER -> NoneV,
     error |-> IF kind = "error" THEN "Request failed" ELSE NoneV,
     endpoint |-> "rate_limit_check", algorithm |-> "TOKEN_BUCKET"]

SampleMetrics ==
    { SampleMetric(ts, lat, "allowed") : ts \in { 0, 999, 1000, 2500 }, lat \in { 50, 150, 250 } }
    \cup { SampleMetric(ts, 50, kind) : ts \in { 0, 1000 }, kind \in { "denied", "error" } }

SampleLogs == UNION { [ 1..n -> SampleMetrics ] : n \in 0..MaxLog }

MaxErrors == 6

\* a log of total outcomes: errors failed ones, then successful ones of one latency
RateLog(total, errors, lat) ==
    [ i \in 1 .. total |->
        IF i <= errors THEN SampleMetric(0, lat, "error") ELSE SampleMetric(0, lat, "allowed") ]

\* a log of total outcomes, errors of them failed, whose slowest fiftieth alone is slow:
\* the p95 latency is 50 ms and, from 100 outcomes on, the p99 latency 250 ms
TailLog(total, errors) ==
    [ i \in 1 .. total |->
        IF i > total - total \div 50 THEN SampleMetric(0, 250, "allowed")
        ELSE RateLog(total, errors, 50)[i] ]

\* main() after the pools, about to call generate_reports on the log it collected
StatInitWith(log, strict, actual_duration, after) ==
       /\ args = RunArgs(TRUE, strict, FALSE, FALSE, 1, 2)
       /\ env = [ RunEnv({"bucket"}, { Allow(1) }, {}, 0, 0, 0) EXCEPT !.health_after = after ]
       /\ pc = "report"
       /\ ran = << "edge", "load" >>
       /\ health_check = NoneV
       /\ edge_case_results = << TRUE, TRUE, TRUE, TRUE, TRUE >>
       /\ pool = "none"
       /\ wk = << >>
       /\ now = 0
       /\ lock = 0
       /\ metrics = log
       /\ burst_metrics = << >>
       /\ joined = << [collected |-> Len(log), actual_duration |-> actual_duration,
                       attempts |-> Len(log), raised |-> 0] >>
       /\ report = NoReport
       /\ validation_passed = NoneV
       /\ exit_code = NoInt
       /\ rnd = << >>
       /\ generated = << >>
       /\ suite_keys = << >>
       /\ configuration = NoConfiguration
       /\ NotPhase1

\* the sample logs of a 2 s run, and the empty log of a run of any length, 0 s included
\* (every worker ended at once)
\* and the logs of longer runs, with error rates of whole percents around the threshold,
\* the service in a known state when the load is over; and such logs with a slow tail
StatInit ==
    \/ \E log \in SampleLogs, strict \in BOOLEAN : StatInitWith(log, strict, 2, HealthKinds)
    \/ \E d \in 0 .. MaxDuration, strict \in BOOLEAN :
          StatInitWith(<< >>, strict, d, HealthKinds)
    \/ \E total \in { 50, 100 }, errors \in 0 .. MaxErrors, lat \in { 50, 150, 250 },
          strict \in BOOLEAN, h \in HealthKinds :
          StatInitWith(RateLog(total, errors, lat), strict, 2, { h })
    \/ \E errors \in 0 .. MaxErrors, strict \in BOOLEAN, h \in HealthKinds :
          StatInitWith(TailLog(100, errors), strict, 2, { h })

StatNext ==
    \/ Report
    \/ PostValidation
    \/ Finish

StatSpec == StatInit /\ [][StatNext]_vars

\* Edge-case suite: run_edge_case_tests against services whose answers are spelled out,
\* with the counts of each kind of answer on both sides of every threshold of a scenario
MaxSlack == 2

\* a allowed, then d denied, then failures or further denials up to the 15 requests
ExhaustProfiles ==
    { Mix(<< Run("allow", a), Run(dk, ExhaustCapacity + ExhaustExtra - a - x), Run(ek, 1) >>,
          << Run("deny", 1) >>) :
        a \in (ExhaustCapacity - MaxSlack) .. (ExhaustCapacity + MaxSlack),
        dk \in { "deny", "deny429", "nofield" },
        x \in 0 .. 1,
        ek \in { "transport", "error500", "garbage", "deny" } }

\* a allowed, then denied, then x answers of another kind, of the 50 requests
BurstProfiles ==
    { Mix(<< Run("allow", a), Run("deny", BurstSize - a - x), Run(ek, 1) >>,
          << Run("deny", 1) >>) :
        a \in BurstCapacity .. (BurstCapacity + 2 + MaxSlack),
        x \in 0 .. (MaxSlack + 1),
        ek \in { "transport", "error500", "garbage", "nofield" } }

TokenKinds ==
    { "allow", "allow_up", "allow_flat", "allow_norem", "deny", "error500", "transport" }

\* remaining-token values that fall, rise, stay or are absent, between other answers
TokenProfiles ==
    { Mix(<< Run(k1, n1), Run(k2, n2), Run(k3, 1) >>, << Run("deny", 1) >>) :
        k1 \in TokenKinds, k2 \in TokenKinds, k3 \in { "allow", "deny", "transport" },
        n1 \in 1 .. MaxSlack, n2 \in 1 .. MaxSlack }

ProbeAnswers ==
    { "deny", "deny_noretry", "deny_zero", "deny429", "deny429_bare", "deny429_zero",
      "allow", "transport" }

\* the bucket exhausted by 5 allowed requests, then the 5 probes answered in two runs
RetryProfiles ==
    { Mix(<< Run("allow", RetryCapacity), Run(k1, n1), Run(k2, 1) >>, << Run("deny", 1) >>) :
        k1 \in ProbeAnswers, k2 \in ProbeAnswers, n1 \in { 1, RetryProbes - 1 } }

\* the least allowed_after_refill that is not below expected_refilled * 0.7
RefillThreshold == (RefillRate * RefillWaitSeconds * 7 + 9) \div 10

\* a1 allowed before the wait and a2 after it, the other requests answered otherwise
RefillProfiles ==
    { Mix(<< Run("allow", a1), Run(k1, 1) >>, << Run("allow", a2), Run(k2, 1) >>) :
        a1 \in (RefillCapacity - 1) .. RefillCapacity,
        a2 \in (RefillThreshold - MaxSlack) .. (RefillThreshold + MaxSlack),
        k1 \in { "deny", "error500", "transport", "garbage" },
        k2 \in { "deny", "error500", "transport", "garbage" } }

SuiteProfiles ==
    { Named(name) : name \in EdgeProfiles }
    \cup ExhaustProfiles \cup BurstProfiles \cup TokenProfiles \cup RetryProfiles
    \cup RefillProfiles

\* main() about to call run_edge_case_tests (line 1804), the service behaving as p
EdgeInit ==
    \E p \in SuiteProfiles :
       /\ args = RunArgs(TRUE, FALSE, FALSE, FALSE, 1, 1)
       /\ env = [ RunEnv({}, { Allow(1) }, {}, 0, 0, 0) EXCEPT !.edge = { p } ]
       /\ pc = "edge"
       /\ ran = << >>
       /\ health_check = NoneV
       /\ edge_case_results = << >>
       /\ pool = "none"
       /\ wk = << >>
       /\ now = 0
       /\ lock = 0
       /\ metrics = << >>
       /\ burst_metrics = << >>
       /\ joined = NoJoin
       /\ report = NoReport
       /\ validation_passed = NoneV
       /\ exit_code = NoInt
       /\ rnd = << >>
       /\ generated = << >>
       /\ suite_keys = << >>
       /\ configuration = NoConfiguration
       /\ NotPhase1

EdgeNext == EdgeScenario

EdgeSpec == EdgeInit /\ [][EdgeNext]_vars

-----------------------------------------------------------------------------
(* Scenario keys: two runs of the edge-case suite on one wall clock *)

\* the name part of the key of each scenario, in suite order
ScenarioNames == << "exhaust", "burst", "tokens", "retry", "refill" >>

\* lines 801, 891, 963, 1035, 1133: f"edgecase:<name>:{int(time.time())}" built at t ticks
scenario_key(k, t) == << "edgecase", ScenarioNames[k], t \div env.clock >>

SuiteRuns == DOMAIN suite_keys

\* the next scenario of suite run r begins: it builds the key it will configure and use
ScenarioKey(r) ==
    /\ pc = "keys"
    /\ Len(suite_keys[r]) < NumScenarios
    /\ suite_keys' = [suite_keys EXCEPT ![r] = Append(@, scenario_key(Len(@) + 1, now))]
    /\ UNCHANGED << phase1Vars, args, env, rnd, generated, configuration, report, pc, ran, health_check,
                    edge_case_results, joined, validation_passed, exit_code, poolVars >>

\* the wall clock advances one tick while the suites run
WallClock ==
    /\ pc = "keys"
    /\ now < MaxWallClock
    /\ now' = now + 1
    /\ UNCHANGED << phase1Vars, args, env, rnd, generated, suite_keys, configuration, report, pc, ran, health_check,
                    edge_case_results, joined, validation_passed, exit_code, pool, wk, lock,
                    metrics, burst_metrics >>

\* two invocations of the program, each about to run its edge-case suite
KeyInit ==
    /\ args = RunArgs(TRUE, FALSE, FALSE, FALSE, 1, 1)
    /\ env = [ RunEnv({"bucket"}, { Allow(1) }, {}, 0, 0, 0) EXCEPT !.clock = MaxClock ]
    /\ pc = "keys"
    /\ ran = << >>
    /\ health_check = NoneV
    /\ edge_case_results = << >>
    /\ pool = "none"
    /\ wk = << >>
    /\ now = 0
    /\ lock = 0
    /\ metrics = << >>
    /\ burst_metrics = << >>
    /\ joined = NoJoin
    /\ report = NoReport
    /\ validation_passed = NoneV
    /\ exit_code = NoInt
    /\ rnd = << >>
    /\ generated = << >>
    /\ suite_keys = [ r \in 1 .. 2 |-> << >> ]
    /\ configuration = NoConfiguration
    /\ NotPhase1

KeyNext ==
    \/ WallClock
    \/ \E r \in SuiteRuns : ScenarioKey(r)

KeySpec == KeyInit /\ [][KeyNext]_vars

-----------------------------------------------------------------------------
(* Traffic simulation: random.Random, weighted_choice, generate_traffic_profile *)

\* random.Random: a generator whose state is a number below Modulus and whose step is
\* x -> (Multiplier * x + Increment) mod Modulus, which visits every state.  A draw
\* of random() is the new state, in units of 1 / Modulus; weights are in the same unit.
Modulus == 100
Multiplier == 21
Increment == 7

\* random.Random(seed)
Random(seed) == seed % Modulus

\* the state after one more draw
Advance(state) == (Multiplier * state + Increment) % Modulus

\* rnd.randint(a, b), from the draw r
randint(r, a, b) == a + (r * (b - a + 1)) \div Modulus

\* rnd.choice(seq), from the draw r
choice(r, seq) == seq[1 + (r * Len(seq)) \div Modulus]

\* the loop of weighted_choice with the comparison r < acc
RECURSIVE weighted_scan_strict(_, _, _, _)
weighted_scan_strict(r, items, k, acc) ==
    IF k > Len(items) THEN items[Len(items)][1]
    ELSE IF r < acc + items[k][2] THEN items[k][1]
    ELSE weighted_scan_strict(r, items, k + 1, acc + items[k][2])

\* lines 330-335: the loop of weighted_choice from item k on, acc the weight of the
\* items before it, then the fallback items[-1][0]
RECURSIVE weighted_scan(_, _, _, _)
weighted_scan(r, items, k, acc) ==
    IF k > Len(items) THEN items[Len(items)][1]
    ELSE IF r <= acc + items[k][2] THEN items[k][1]
    ELSE weighted_scan(r, items, k + 1, acc + items[k][2])

\* weighted_choice(rnd, items): r is the draw it took, rnd the generator after it
weighted_choice(state, items) ==
    LET r == Advance(state)
    IN  [value |-> weighted_scan(r, items, 1, 0), r |-> r, rnd |-> r]

\* (name, info["weight"]) of ENDPOINTS, in the order of the dict
endpoint_items ==
    << << "rate_limit_check", 60 >>, << "get_config", 10 >>, << "admin_stats", 5 >>,
       << "admin_keys", 5 >>, << "get_patterns", 5 >>, << "save_config", 5 >>,
       << "health_check", 5 >>, << "metrics", 5 >> >>

user_tiers ==
    << << "user:guest", 60 >>, << "user:registered", 30 >>, << "user:premium", 8 >>,
       << "user:vip", 2 >> >>

token_weights == << << 1, 70 >>, << 2, 20 >>, << 5, 8 >>, << 10, 2 >> >>

\* algorithm.lower()
lower(name) ==
    CASE name = "TOKEN_BUCKET" -> "token_bucket"
      [] name = "SLIDING_WINDOW" -> "sliding_window"
      [] name = "SLIDING_WINDOW_COUNTER" -> "sliding_window_counter"
      [] name = "FIXED_WINDOW" -> "fixed_window"
      [] name = "LEAKY_BUCKET" -> "leaky_bucket"

\* generate_traffic_profile(rnd, algorithms): the tuple it returns and the generator
\* after its eight draws.  key is the three parts of the f-string, client_ip the four
\* numbers of the address.
generate_traffic_profile(state, algorithms) ==
    LET endpoint == weighted_choice(state, endpoint_items)
        user_tier == weighted_choice(endpoint.rnd, user_tiers)
        r3 == Advance(user_tier.rnd)
        user_id == randint(r3, 1, 10000)
        r4 == Advance(r3)
        algorithm == choice(r4, algorithms)
        tokens == weighted_choice(r4, token_weights)
        r6 == Advance(tokens.rnd)
        r7 == Advance(r6)
        r8 == Advance(r7)
    IN  [profile |-> [key |-> << lower(algorithm), user_tier.value, user_id >>,
                      endpoint_name |-> endpoint.value,
                      tokens |-> tokens.value,
                      client_ip |-> << 10, randint(r6, 0, 255), randint(r7, 0, 255),
                                       randint(r8, 1, 254) >>,
                      algorithm |-> algorithm],
         rnd |-> r8]

\* The text of a name, as its words and the separators between them.
Spell(name) ==
    CASE name = "token_bucket" -> << "token", "_", "bucket" >>
      [] name = "sliding_window" -> << "sliding", "_", "window" >>
      [] name = "sliding_window_counter" -> << "sliding", "_", "window", "_", "counter" >>
      [] name = "fixed_window" -> << "fixed", "_", "window" >>
      [] name = "leaky_bucket" -> << "leaky", "_", "bucket" >>
      [] name = "user:guest" -> << "user", ":", "guest" >>
      [] name = "user:registered" -> << "user", ":", "registered" >>
      [] name = "user:premium" -> << "user", ":", "premium" >>
      [] name = "user:vip" -> << "user", ":", "vip" >>

\* line 372: key = f"{algorithm.lower()}:{user_tier}:{user_id}", as text
key_text(key) == Spell(key[1]) \o << ":" >> \o Spell(key[2]) \o << ":", key[3] >>

\* a pattern without the colon after the algorithm's name
pattern_bare(name) == Spell(lower(name)) \o << "*" >>

\* line 1688: pattern = f"{algo_config.name.lower()}:*"
pattern(name) == Spell(lower(name)) \o << ":", "*" >>

\* a key matches a pattern that ends in * when it starts with what precedes the *
Matches(pat, text) ==
    LET prefix == SubSeq(pat, 1, Len(pat) - 1)
    IN  /\ pat[Len(pat)] = "*"
        /\ Len(text) >= Len(prefix)
        /\ SubSeq(text, 1, Len(prefix)) = prefix

\* every worker seeds its generator with config.seed alone
worker_seed_shared(seed, worker_id) == seed

\* line 480: config.seed + worker_id
worker_seed(seed, worker_id) == seed + worker_id

NoRandom == << >>

\* line 480: rnd = random.Random(config.seed + worker_id)
TrafficStart(w) ==
    /\ pc = "traffic"
    /\ rnd[w] = NoRandom
    /\ rnd' = [rnd EXCEPT ![w] = Some(Random(worker_seed(args.seed, w)))]
    /\ UNCHANGED << phase1Vars, args, env, generated, suite_keys, configuration, report, pc, ran, health_check,
                    edge_case_results, joined, validation_passed, exit_code, poolVars >>

\* the exchange of the iteration under way has not returned
Unanswered(w) ==
    generated[w] # << >> /\ generated[w][Len(generated[w])].resp = NoResp

\* lines 490-494: one more iteration of the loop draws its traffic profile
TrafficDraw(w) ==
    /\ pc = "traffic"
    /\ rnd[w] # NoRandom
    /\ ~Unanswered(w)
    /\ Len(generated[w]) < MaxRequests
    /\ LET gp == generate_traffic_profile(rnd[w][1], args.algorithms)
       IN  /\ generated' = [generated EXCEPT
                               ![w] = Append(@, [profile |-> gp.profile, resp |-> NoResp])]
           /\ rnd' = [rnd EXCEPT ![w] = Some(gp.rnd)]
    /\ UNCHANGED << phase1Vars, args, env, suite_keys, configuration, report, pc, ran, health_check, edge_case_results,
                    joined, validation_passed, exit_code, poolVars >>

\* lines 512-526: the exchange returns or raises
TrafficExchange(w) ==
    /\ pc = "traffic"
    /\ Unanswered(w)
    /\ \E r \in env.load.main :
          generated' = [generated EXCEPT ![w][Len(generated[w])].resp = r]
    /\ UNCHANGED << phase1Vars, args, env, rnd, suite_keys, configuration, report, pc, ran, health_check,
                    edge_case_results, joined, validation_passed, exit_code, poolVars >>

\* the seeds of the runs; the algorithm lists are the first n of the default ones
TrafficSeeds == { 0, 1, DefaultSeed }
AlgorithmLists == { SubSeq(Algorithms, 1, n) : n \in { 1, 2, Len(Algorithms) } }

\* MaxConcurrency worker threads, each about to seed its generator, against a service
\* that answers or fails in transport
TrafficInit ==
    \E seed \in TrafficSeeds, algorithms \in AlgorithmLists :
       /\ args = [ RunArgs(TRUE, FALSE, FALSE, FALSE, MaxConcurrency, 1)
                      EXCEPT !.seed = seed, !.algorithms = algorithms ]
       /\ env = RunEnv({"bucket"}, { Allow(1), Transport }, {}, 0, 0, 0)
       /\ pc = "traffic"
       /\ ran = << >>
       /\ health_check = NoneV
       /\ edge_case_results = << >>
       /\ pool = "main"
       /\ wk = << >>
       /\ now = 0
       /\ lock = 0
       /\ metrics = << >>
       /\ burst_metrics = << >>
       /\ joined = NoJoin
       /\ report = NoReport
       /\ validation_passed = NoneV
       /\ exit_code = NoInt
       /\ rnd = [ w \in 0 .. MaxConcurrency - 1 |-> NoRandom ]
       /\ generated = [ w \in 0 .. MaxConcurrency - 1 |-> << >> ]
       /\ suite_keys = << >>
       /\ configuration = NoConfiguration
       /\ NotPhase1

TrafficNext ==
    \E w \in DOMAIN rnd :
       \/ TrafficStart(w)
       \/ TrafficDraw(w)
       \/ TrafficExchange(w)

TrafficSpec == TrafficInit /\ [][TrafficNext]_vars

\* weighted_choice on its own: item lists of up to MaxItems entries, the k-th of value k,
\* with weights from ChoiceWeights, and a generator in any state
MaxItems == 3
ChoiceWeights == { 0, 20, 50 }

ItemLists ==
    UNION { { [ k \in 1 .. n |-> << k, weight[k] >> ] : weight \in [ 1 .. n -> ChoiceWeights ] } :
            n \in 1 .. MaxItems }

\* one call of weighted_choice(rnd, items)
Choose ==
    /\ pc = "choice"
    /\ generated[0] = << >>
    /\ \E items \in ItemLists :
          LET c == weighted_choice(rnd[0][1], items)
          IN  /\ generated' = [generated EXCEPT
                                  ![0] = << [items |-> items, r |-> c.r, value |-> c.value] >>]
              /\ rnd' = [rnd EXCEPT ![0] = Some(c.rnd)]
    /\ UNCHANGED << phase1Vars, args, env, suite_keys, configuration, report, pc, ran, health_check, edge_case_results,
                    joined, validation_passed, exit_code, poolVars >>

ChoiceInit ==
    \E state \in 0 .. Modulus - 1 :
       /\ args = RunArgs(TRUE, FALSE, FALSE, FALSE, 1, 1)
       /\ env = RunEnv({"bucket"}, { Allow(1) }, {}, 0, 0, 0)
       /\ pc = "choice"
       /\ ran = << >>
       /\ health_check = NoneV
       /\ edge_case_results = << >>
       /\ pool = "none"
       /\ wk = << >>
       /\ now = 0
       /\ lock = 0
       /\ metrics = << >>
       /\ burst_metrics = << >>
       /\ joined = NoJoin
       /\ report = NoReport
       /\ validation_passed = NoneV
       /\ exit_code = NoInt
       /\ rnd = [ w \in { 0 } |-> Some(state) ]
       /\ generated = [ w \in { 0 } |-> << >> ]
       /\ suite_keys = << >>
       /\ configuration = NoConfiguration
       /\ NotPhase1

ChoiceNext == Choose

ChoiceSpec == ChoiceInit /\ [][ChoiceNext]_vars

\* Pacing rates: the first worker of the main pool, then the first worker of the burst
\* pool, each computing its rate from its pool's TestConfig, for every --concurrency up to
\* MaxPoolSize and every --target-rps up to MaxRps.  A pool of no workers computes nothing.
MaxPoolSize == 4
MaxRps == 12

\* lines 484-486 in a worker of pool p: per_worker_rps and interval (a fraction of a
\* second, as numerator and denominator)
WorkerPacing(p) ==
    LET cfg == PoolConfig(p)
        per_worker_rps == PerWorkerRps(cfg.target_rps, cfg.concurrency)
    IN  [pool |-> p, concurrency |-> cfg.concurrency, target_rps |-> cfg.target_rps,
         per_worker_rps |-> per_worker_rps,
         interval_num |-> 1, interval_den |-> Max(per_worker_rps, 1)]

\* lines 1816-1820: the main pool's workers start
PaceMain ==
    /\ pc = "rate_main"
    /\ PoolConfig("main").concurrency >= 1
    /\ pc' = "rate_burst"
    /\ generated' = [generated EXCEPT ![0] = Append(@, WorkerPacing("main"))]
    /\ UNCHANGED << phase1Vars, args, env, rnd, suite_keys, configuration, report, ran, health_check, edge_case_results,
                    joined, validation_passed, exit_code, poolVars >>

\* lines 602-606: the burst pool's workers start
PaceBurst ==
    /\ pc = "rate_burst"
    /\ PoolConfig("burst").concurrency >= 1
    /\ pc' = "rate_done"
    /\ generated' = [generated EXCEPT ![0] = Append(@, WorkerPacing("burst"))]
    /\ UNCHANGED << phase1Vars, args, env, rnd, suite_keys, configuration, report, ran, health_check, edge_case_results,
                    joined, validation_passed, exit_code, poolVars >>

RateInit ==
    \E c \in 0 .. MaxPoolSize, t \in 0 .. MaxRps :
       /\ args = [ RunArgs(TRUE, FALSE, TRUE, FALSE, c, 1) EXCEPT !.target_rps = t ]
       /\ env = RunEnv({"bucket"}, { Allow(1) }, { Allow(1) }, 0, 0, 0)
       /\ pc = "rate_main"
       /\ ran = << >>
       /\ health_check = NoneV
       /\ edge_case_results = << >>
       /\ pool = "none"
       /\ wk = << >>
       /\ now = 0
       /\ lock = 0
       /\ metrics = << >>
       /\ burst_metrics = << >>
       /\ joined = NoJoin
       /\ report = NoReport
       /\ validation_passed = NoneV
       /\ exit_code = NoInt
       /\ rnd = << >>
       /\ generated = [ w \in { 0 } |-> << >> ]
       /\ suite_keys = << >>
       /\ configuration = NoConfiguration
       /\ NotPhase1

RateNext ==
    \/ PaceMain
    \/ PaceBurst

RateSpec == RateInit /\ [][RateNext]_vars

\* Aggregates: generate_reports applied to every log of at most MaxLog outcomes, each
\* a failure or a success of one of three latencies, and to logs of 100 outcomes with a
\* slow tail
AggMetrics ==
    { SampleMetric(0, lat, "allowed") : lat \in { 50, 150, 250 } }
    \cup { SampleMetric(0, 50, "error") }

AggInit ==
    \/ \E n \in 0 .. MaxLog : \E log \in [ 1 .. n -> AggMetrics ], strict \in BOOLEAN :
          StatInitWith(log, strict, 2, { "up" })
    \/ \E errors \in 0 .. MaxErrors, strict \in BOOLEAN :
          StatInitWith(TailLog(100, errors), strict, 2, { "up" })

AggSpec == AggInit /\ [][StatNext]_vars


\* Verdict: main() about to call generate_reports after an edge-case suite whose five
\* scenarios returned any combination of results, on logs with an error rate below, at
\* and above the threshold and latencies on both sides of the percentile thresholds
VerdictInit ==
    \E results \in [ 1 .. NumScenarios -> BOOLEAN ], errors \in 0 .. 2, lat \in { 50, 250 },
       strict \in BOOLEAN, h \in { "up", "not_up" } :
       /\ args = RunArgs(TRUE, strict, FALSE, FALSE, 1, 2)
       /\ env = [ RunEnv({"bucket"}, { Allow(1) }, {}, 0, 0, 0) EXCEPT !.health_after = { h } ]
       /\ pc = "report"
       /\ ran = << "edge", "load" >>
       /\ health_check = NoneV
       /\ edge_case_results = results
       /\ pool = "none"
       /\ wk = << >>
       /\ now = 0
       /\ lock = 0
       /\ metrics = RateLog(20, errors, lat)
       /\ burst_metrics = << >>
       /\ joined = << [collected |-> 20, actual_duration |-> 2, attempts |-> 20,
                       raised |-> 0] >>
       /\ report = NoReport
       /\ validation_passed = NoneV
       /\ exit_code = NoInt
       /\ rnd = << >>
       /\ generated = << >>
       /\ suite_keys = << >>
       /\ configuration = NoConfiguration
       /\ NotPhase1

VerdictSpec == VerdictInit /\ [][StatNext]_vars

-----------------------------------------------------------------------------
(* phase1.py: the asyncio prototype.  Its clock, time.perf_counter(), advances in *)
(* ticks; a token level is kept in units of 1 / TicksPerSecond of a token, so    *)
(* that elapsed * rate is a whole number of units.                               *)

TicksPerSecond == 2
MaxTargetRps == 3
MaxTasks == 2
MaxDurationS == 1

Min(a, b) == IF a <= b THEN a ELSE b

\* TokenBucket.__init__, lines 14-18, constructed when the clock reads t
TokenBucket(rate, capacity, t) ==
    [rate |-> rate, capacity |-> capacity, tokens |-> capacity * TicksPerSecond, last |-> t]

\* take() without the cap of line 24
take_uncapped(b, t) ==
    LET refilled == b.tokens + (t - b.last) * b.rate
    IN  IF refilled >= TicksPerSecond
        THEN [bucket |-> [b EXCEPT !.last = t, !.tokens = refilled - TicksPerSecond],
              taken |-> TRUE]
        ELSE [bucket |-> [b EXCEPT !.last = t, !.tokens = refilled], taken |-> FALSE]

\* TokenBucket.take, lines 20-28, called when the clock reads t: the bucket after the
\* call and the value returned
take(b, t) ==
    LET elapsed == t - b.last
        refilled == Min(b.capacity * TicksPerSecond, b.tokens + elapsed * b.rate)
    IN  IF refilled >= TicksPerSecond
        THEN [bucket |-> [b EXCEPT !.last = t, !.tokens = refilled - TicksPerSecond],
              taken |-> TRUE]
        ELSE [bucket |-> [b EXCEPT !.last = t, !.tokens = refilled], taken |-> FALSE]

\* what client.post can end in: a 200, a 429, another status, an exception
PostKinds == { "200", "429", "other", "raised" }

\* worker, lines 31-43: one run of a worker coroutine from where it was resumed to its
\* next await, no other coroutine running in between; the clock is read as one instant.
\* The loop ends at stats["end"]; a refused take() yields with asyncio.sleep(0) and the
\* worker is ready again; a granted one issues the request and awaits its response.
Phase1Loop(w) ==
    /\ phase1_tasks[w] = "ready"
    /\ IF ~(phase1_clock < phase1_stats[1].end)
       THEN /\ phase1_tasks' = [phase1_tasks EXCEPT ![w] = "done"]
            /\ UNCHANGED << phase1_bucket, phase1_issued >>
       ELSE LET r == take(phase1_bucket[1], phase1_clock)
            IN  /\ phase1_bucket' = << r.bucket >>
                /\ IF r.taken
                   THEN /\ phase1_tasks' = [phase1_tasks EXCEPT ![w] = "post"]
                        /\ phase1_issued' = Append(phase1_issued, phase1_clock)
                   ELSE UNCHANGED << phase1_tasks, phase1_issued >>
    /\ UNCHANGED << phase1_stats, phase1_clock >>
    /\ UNCHANGED << args, env, pc, ran, health_check, edge_case_results, joined, report,
                    validation_passed, exit_code, rnd, generated, suite_keys,
                    configuration, poolVars >>

\* worker, lines 43-53: the response arrives, or the post raises; the latency sum
\* stats["lat"] is not kept
Phase1Response(w) ==
    /\ phase1_tasks[w] = "post"
    /\ \E kind \in PostKinds :
          phase1_stats' =
              CASE kind = "200" -> [phase1_stats EXCEPT ![1].ok = @ + 1]
                [] kind = "429" -> [phase1_stats EXCEPT ![1].denied = @ + 1]
                [] OTHER -> [phase1_stats EXCEPT ![1].errors = @ + 1]
    /\ phase1_tasks' = [phase1_tasks EXCEPT ![w] = "ready"]
    /\ UNCHANGED << phase1_bucket, phase1_clock, phase1_issued >>
    /\ UNCHANGED << args, env, pc, ran, health_check, edge_case_results, joined, report,
                    validation_passed, exit_code, rnd, generated, suite_keys,
                    configuration, poolVars >>

\* time passes, until the end of the run
Phase1Tick ==
    /\ phase1_bucket # << >>
    /\ phase1_clock < phase1_stats[1].end
    /\ phase1_clock' = phase1_clock + 1
    /\ UNCHANGED << phase1_bucket, phase1_stats, phase1_tasks, phase1_issued >>
    /\ UNCHANGED << args, env, pc, ran, health_check, edge_case_results, joined, report,
                    validation_passed, exit_code, rnd, generated, suite_keys,
                    configuration, poolVars >>

\* main, lines 56-61: stats, the bucket with rate = capacity = TARGET_RPS, and the
\* CONCURRENCY worker tasks created, with TARGET_RPS, CONCURRENCY and DURATION_S
\* up to their bounds
Phase1Init ==
    \E target_rps \in 1 .. MaxTargetRps, concurrency \in 1 .. MaxTasks,
       duration_s \in 1 .. MaxDurationS :
       /\ phase1_clock = 0
       /\ phase1_stats = << [ok |-> 0, denied |-> 0, errors |-> 0,
                             end |-> duration_s * TicksPerSecond] >>
       /\ phase1_bucket = << TokenBucket(target_rps, target_rps, 0) >>
       /\ phase1_tasks = [ w \in 1 .. concurrency |-> "ready" ]
       /\ phase1_issued = << >>
       /\ args = RunArgs(TRUE, FALSE, FALSE, FALSE, 1, 1)
       /\ env = RunEnv({"bucket"}, { Allow(1) }, {}, 0, 0, 0)
       /\ pc = "phase1"
       /\ ran = << >>
       /\ health_check = NoneV
       /\ edge_case_results = << >>
       /\ pool = "none"
       /\ wk = << >>
       /\ now = 0
       /\ lock = 0
       /\ metrics = << >>
       /\ burst_metrics = << >>
       /\ joined = NoJoin
       /\ report = NoReport
       /\ validation_passed = NoneV
       /\ exit_code = NoInt
       /\ rnd = << >>
       /\ generated = << >>
       /\ suite_keys = << >>
       /\ configuration = NoConfiguration

Phase1Next ==
    \/ \E w \in DOMAIN phase1_tasks : Phase1Loop(w)
    \/ \E w \in DOMAIN phase1_tasks : Phase1Response(w)
    \/ Phase1Tick

Phase1Spec == Phase1Init /\ [][Phase1Next]_vars

-----------------------------------------------------------------------------
(* Claims *)

\* the elements of a list
Range(s) == { s[i] : i \in DOMAIN s }

\* C1: once every worker of a pool (main or burst) has finished, so that the pool can be
\* joined, the pool's log holds exactly one RequestMetric per request attempt: its length
\* is the sum of the workers' completed iterations and each attempt (worker, iteration)
\* occurs exactly once; main() reads that same length after the join.
C1_OneMetricPerAttempt ==
    /\ (pool # "none" /\ \A w \in Workers : Terminal(w)) =>
          LET log == IF pool = "burst" THEN burst_metrics ELSE metrics
          IN  /\ Len(log) = SumCounts(wk, Len(wk))
              /\ \A w \in Workers : \A k \in 1..wk[w].request_count :
                    Cardinality({ i \in DOMAIN log : log[i].wid = w /\ log[i].seq = k }) = 1
    /\ joined # NoJoin =>
          /\ joined[1].collected = joined[1].attempts
          /\ Len(metrics) = joined[1].collected

\* two workers of the main pool have finished after interleaved appends
C1_Witness ==
    /\ pool = "main"
    /\ \A w \in Workers : Terminal(w)
    /\ Len(metrics) >= 3
    /\ \E i \in 1..(Len(metrics) - 1) : metrics[i].wid = 2 /\ metrics[i + 1].wid = 1

\* C2: when the exchange of an iteration failed in transport, the worker appends exactly
\* one outcome for it, with a non-empty error and allowed unknown, counts the iteration,
\* and goes on: it sleeps or starts the next request, and stops only when its deadline
\* has passed; neither the worker nor the run ends with an exception.
C2_TransportFailureRecorded ==
    [][\A w \in Workers :
          (wk[w].pc = "append" /\ wk[w].resp.failed /\ wk'[w].pc # "append") =>
             LET log == IF pool = "burst" THEN burst_metrics ELSE metrics
                 logn == IF pool = "burst" THEN burst_metrics' ELSE metrics'
                 m == logn[Len(logn)]
             IN  /\ Len(logn) = Len(log) + 1
                 /\ \A i \in DOMAIN log : logn[i] = log[i]
                 /\ m.wid = w /\ m.seq = wk[w].request_count + 1
                 /\ m.error \notin { NoneV, "" }
                 /\ m.allowed = NoneV
                 /\ wk'[w].request_count = wk[w].request_count + 1
                 /\ wk'[w].pc \in { "sleep", "request", "stopped" }
                 /\ wk'[w].pc = "stopped" =>
                       now - wk[w].start_time >= Ticks(PoolConfig(pool).duration_seconds)
                 /\ pc' = pc /\ exit_code' = NoInt]_vars

\* a worker recorded a transport failure and then a further outcome
C2_Witness ==
    \E i \in DOMAIN metrics : \E j \in DOMAIN metrics :
       /\ i < j
       /\ metrics[i].wid = metrics[j].wid
       /\ metrics[i].error = "Request failed" /\ metrics[i].allowed = NoneV
       /\ metrics[j].seq = metrics[i].seq + 1

\* C3: when a worker of the main pool ends with an exception, no sibling is affected: the
\* others keep their state and stop only once their own deadline has passed; main() joins
\* the pool when every worker has finished, goes on to the burst phase, and the run
\* reaches report generation and post-test validation and exits.
C3_WorkerExceptionContained ==
    /\ [][/\ \A w \in Workers :
                (wk[w].pc # "raised" /\ pool' = pool /\ wk'[w].pc = "raised") =>
                   \A v \in Workers \ {w} : wk'[v] = wk[v]
          /\ (pc = "join" /\ pc' # "join") =>
                /\ \A w \in Workers : Terminal(w)
                /\ \A w \in Workers :
                      wk[w].pc = "stopped" =>
                         now - wk[w].start_time >= Ticks(args.duration_seconds)
                /\ pc' = "burst"
                /\ exit_code' = NoInt]_vars
    /\ (pc = "join" /\ \E w \in Workers : wk[w].pc = "raised")
          ~> (/\ pc = "exited"
              /\ "report" \in Range(ran)
              /\ "validation" \in Range(ran)
              /\ report # NoReport
              /\ validation_passed # NoneV)

\* a run in which one worker of the main pool died and a sibling recorded outcomes
\* has exited after its report and its validation
C3_Witness ==
    /\ pc = "exited"
    /\ joined # NoJoin
    /\ joined[1].raised >= 1
    /\ joined[1].collected >= 1
    /\ args.concurrency >= 2
    /\ "validation" \in Range(ran)

\* C4: a worker that has stopped stays stopped; a worker stops only when it observes
\* now - start_time >= duration; and under fair scheduling, with time advancing and
\* every exchange returning within MaxLatency, every worker of a pool eventually
\* finishes (stopped, or ended by an exception) and the pool is then joined.
C4_WorkerStopsAtDeadline ==
    /\ [][\A w \in Workers :
             pool' = pool =>
                /\ wk[w].pc = "stopped" => wk'[w] = wk[w]
                /\ (wk[w].pc # "stopped" /\ wk'[w].pc = "stopped") =>
                      now - wk'[w].start_time >= Ticks(PoolConfig(pool).duration_seconds)]_vars
    /\ \A p \in { "main", "burst" } :
          /\ (pool = p) ~> (pool = p /\ \A w \in Workers : Terminal(w))
          /\ (pool = p /\ \A w \in Workers : Terminal(w)) ~> (pool = "none")

\* the three workers of a burst pool have stopped, each after recording an outcome
C4_Witness ==
    /\ pool = "burst"
    /\ Len(wk) >= 3
    /\ \A w \in Workers : wk[w].pc = "stopped" /\ wk[w].request_count >= 1

\* C5: the phases that run occur in the fixed order health check, configuration push,
\* warmup, edge-case suite, main load, burst, benchmark, regression analysis, report,
\* validation, each starting after the previous one has finished: the order of the phases
\* run so far is ascending; the main load starts after the five scenarios, the burst pool
\* after the main pool was joined, the later phases with no pool left, the validation
\* after the report; and a run that reaches its validation ran exactly the phases its
\* flags select.
C5_PhaseOrder ==
    LET Rank(ph) == CASE ph = "health" -> 1 [] ph = "setup" -> 2 [] ph = "warmup" -> 3
                      [] ph = "edge" -> 4 [] ph = "load" -> 5 [] ph = "burst" -> 6
                      [] ph = "benchmark" -> 7 [] ph = "performance" -> 8
                      [] ph = "report" -> 9 [] ph = "validation" -> 10
        Did(ph) == ph \in Range(ran)
        Opt(on, ph) == IF on THEN << ph >> ELSE << >>
    IN  /\ \A i \in DOMAIN ran : \A j \in DOMAIN ran : i < j => Rank(ran[i]) < Rank(ran[j])
        /\ Did("load") => Len(edge_case_results) = NumScenarios
        /\ pool = "main" => ~Did("burst")
        /\ (pool = "burst" \/ Did("burst")) => joined # NoJoin
        /\ (Did("benchmark") \/ Did("performance") \/ Did("report")) =>
              (pool = "none" /\ joined # NoJoin)
        /\ Did("validation") => report # NoReport
        /\ validation_passed # NoneV =>
              ran = Opt(~args.skip_health_checks, "health")
                    \o Opt(~args.skip_setup, "setup")
                    \o Opt(args.warmup_seconds > 0, "warmup")
                    \o << "edge", "load" >>
                    \o Opt(~args.skip_burst_test, "burst")
                    \o Opt(~args.skip_benchmark_test, "benchmark")
                    \o Opt(~args.skip_performance_test, "performance")
                    \o << "report", "validation" >>

\* a run with every phase enabled has exited after all ten
C5_Witness ==
    /\ pc = "exited"
    /\ ran = << "health", "setup", "warmup", "edge", "load", "burst", "benchmark",
                "performance", "report", "validation" >>

\* C6 as the specification states it: with strict validation and a failed pre-flight
\* check the process exits non-zero with nothing else done; without strict validation a
\* failed pre-flight check does not stop the run, and the run, once over, has executed
\* every later phase its flags select.
C6_Original ==
    /\ (args.strict_validation /\ health_check = "false") =>
          /\ pc = "exited"
          /\ exit_code = Some(ExitFailure)
          /\ ran = << "health" >>
          /\ edge_case_results = << >>
          /\ metrics = << >>
          /\ pool = "none"
    /\ (~args.strict_validation /\ health_check = "false" /\ exit_code # NoInt) =>
          /\ Len(edge_case_results) = NumScenarios
          /\ { "edge", "load", "report", "validation" } \subseteq Range(ran)
          /\ ~args.skip_setup => "setup" \in Range(ran)
          /\ ~args.skip_benchmark_test => "benchmark" \in Range(ran)
          /\ ~args.skip_performance_test => "performance" \in Range(ran)

\* C7 as the specification states it: a non-zero exit code only with strict validation
\* and a failed pre-flight check or a failed post-test validation; exit code zero in
\* every run without strict validation.
C7_Original ==
    /\ (exit_code # NoInt /\ exit_code # Some(0)) =>
          /\ args.strict_validation
          /\ health_check = "false" \/ validation_passed = "false"
    /\ (~args.strict_validation /\ exit_code # NoInt) => exit_code = Some(0)

\* C8 as the specification states it: whatever the service does during scenario k, the
\* scenario yields an EdgeCaseResult, the run goes on to scenario k + 1, or to the main
\* load phase after the fifth, and the process does not end there.
C8_Original ==
    [][pc = "edge" =>
          /\ Len(edge_case_results') = Len(edge_case_results) + 1
          /\ pc' = IF Len(edge_case_results') = NumScenarios THEN "load" ELSE "edge"
          /\ exit_code' = NoInt]_vars

\* C9: build_timeline partitions the log: every outcome lies in exactly one bucket, the
\* one whose key is the second its timestamp falls in; a bucket's rps is the number of
\* outcomes in it over one second, so the buckets' counts add up to the length of the
\* log; and the buckets are emitted by ascending key.
C9_TimelinePartition ==
    report # NoReport =>
       LET tl == report[1].timeline
           In(i, j) == /\ tl[j].sec * 1000 <= metrics[i].timestamp_ms
                       /\ metrics[i].timestamp_ms < (tl[j].sec + 1) * 1000
           Of(j) == { i \in DOMAIN metrics : In(i, j) }
           RECURSIVE Total(_)
           Total(j) == IF j = 0 THEN 0 ELSE tl[j].rps_num + Total(j - 1)
       IN  /\ \A i \in DOMAIN metrics :
                 Cardinality({ j \in DOMAIN tl : In(i, j) }) = 1
           /\ \A j \in DOMAIN tl :
                 /\ tl[j].rps_num = Cardinality(Of(j))
                 /\ tl[j].rps_den = 1
                 /\ Len(tl[j].members) = Cardinality(Of(j))
                 /\ Cardinality(Of(j)) >= 1
                 /\ \A m \in Range(tl[j].members) :
                       Cardinality({ k \in DOMAIN tl[j].members : tl[j].members[k] = m })
                       = Cardinality({ i \in Of(j) : metrics[i] = m })
           /\ Total(Len(tl)) = Len(metrics)
           /\ \A j \in DOMAIN tl : \A k \in DOMAIN tl : j < k => tl[j].sec < tl[k].sec

\* a report over three outcomes that fall into two buckets, written out of time order
C9_Witness ==
    /\ report # NoReport
    /\ Len(metrics) = 3
    /\ Len(report[1].timeline) = 2
    /\ metrics[1].timestamp_ms = 2500
    /\ metrics[2].timestamp_ms = 999
    /\ metrics[3].timestamp_ms = 0

\* C10: on an ascending list of n >= 1 latencies compute_percentile returns the element
\* at zero-based index floor((n - 1) * f), for every fraction f the reports use and for
\* f = 0 and f = 1; so f = 1 gives the maximum and f = 0 the minimum; on the empty list
\* it returns 0.
C10_PercentileIndex ==
    LET latencies == SortAsc(Latencies(metrics))
        n == Len(latencies)
        Fractions == { 0, 500, 750, 900, 950, 990, 999, 1000 }
    IN  /\ compute_percentile(<< >>, 500) = 0
        /\ n = 0 => \A f \in Fractions : compute_percentile(latencies, f) = 0
        /\ n >= 1 =>
              /\ \A f \in Fractions :
                    \E k \in 0..(n - 1) :
                       /\ k * 1000 <= (n - 1) * f
                       /\ (n - 1) * f < (k + 1) * 1000
                       /\ compute_percentile(latencies, f) = latencies[k + 1]
              /\ \A x \in Range(latencies) :
                    /\ x <= compute_percentile(latencies, 1000)
                    /\ compute_percentile(latencies, 0) <= x
              /\ compute_percentile(latencies, 1000) \in Range(latencies)
              /\ compute_percentile(latencies, 0) \in Range(latencies)
        /\ report # NoReport =>
              /\ report[1].overall.p50_ms = compute_percentile(latencies, 500)
              /\ report[1].overall.p75_ms = compute_percentile(latencies, 750)
              /\ report[1].overall.p999_ms = compute_percentile(latencies, 999)

\* a report over three distinct latencies, logged out of order: the median and the 75th
\* percentile are the middle one
C10_Witness ==
    /\ report # NoReport
    /\ Len(metrics) = 3
    /\ metrics[1].latency_ms = 250 /\ metrics[2].latency_ms = 50
    /\ metrics[3].latency_ms = 150
    /\ \A i \in DOMAIN metrics : metrics[i].error = NoneV
    /\ report[1].overall.p50_ms = 150
    /\ report[1].overall.p75_ms = 150
    /\ report[1].overall.p999_ms = 150

\* every number of an AggregateStats is zero (a quotient is zero when its numerator is)
AllZero(st) ==
    /\ st.total = 0 /\ st.allowed = 0 /\ st.denied = 0 /\ st.errors = 0
    /\ st.rps_num = 0 /\ st.rps_den > 0
    /\ st.min_ms = 0 /\ st.max_ms = 0
    /\ st.avg_num = 0 /\ st.avg_den > 0
    /\ st.median_x2 = 0
    /\ st.p50_ms = 0 /\ st.p75_ms = 0 /\ st.p90_ms = 0
    /\ st.p95_ms = 0 /\ st.p99_ms = 0 /\ st.p999_ms = 0
    /\ st.var_num = 0 /\ st.var_den > 0
    /\ st.success_num = 0 /\ st.error_num = 0 /\ st.rate_den > 0

\* C11: aggregate_metrics on the empty log returns an AggregateStats whose every field is
\* zero, whatever the elapsed seconds, 0 included (no division by zero: every denominator
\* is positive); so does the body below the early return, which is all that
\* full_system_load_test.py has; and the report of a run that collected nothing holds it.
C11_EmptyAllZero ==
    /\ \A d \in 0 .. MaxDuration :
          /\ AllZero(aggregate_metrics(<< >>, d))
          /\ AllZero(aggregate_stats(<< >>, d))
    /\ (report # NoReport /\ metrics = << >>) => AllZero(report[1].overall)

\* the report of a run that collected nothing in 0 elapsed seconds
C11_Witness ==
    /\ report # NoReport
    /\ metrics = << >>
    /\ joined[1].actual_duration = 0
    /\ report[1].timeline = << >>

\* C12: the latency statistics of aggregate_metrics are those of the outcomes without
\* error, and of no others: minimum, maximum, mean, median, standard deviation and every
\* percentile are what the error-free outcomes alone give; an outcome with an error is
\* counted in total and in errors, and in neither allowed nor denied; when every outcome
\* of a non-empty log has an error, every latency field is 0.
C12_LatencyOverSuccesses ==
    report # NoReport =>
       LET st == report[1].overall
           d == joined[1].actual_duration
           ok == { i \in DOMAIN metrics : metrics[i].error = NoneV }
           bad == DOMAIN metrics \ ok
           n == Cardinality(ok)
           lat(i) == metrics[i].latency_ms
           Errorless(m) == m.error = NoneV
           clean == aggregate_metrics(SelectSeq(metrics, Errorless), d)
           RECURSIVE SumOver(_)
           SumOver(S) == IF S = {} THEN 0
                         ELSE LET i == CHOOSE x \in S : TRUE
                              IN  lat(i) + SumOver(S \ {i})
           RECURSIVE SqDiffs(_)
           SqDiffs(S) == IF S = {} THEN 0
                         ELSE LET i == CHOOSE x \in S : TRUE
                                  RECURSIVE Row(_)
                                  Row(T) == IF T = {} THEN 0
                                            ELSE LET j == CHOOSE y \in T : TRUE
                                                 IN  (lat(i) - lat(j)) * (lat(i) - lat(j))
                                                     + Row(T \ {j})
                              IN  Row(S \ {i}) + SqDiffs(S \ {i})
           Percentiles == { st.p50_ms, st.p75_ms, st.p90_ms, st.p95_ms, st.p99_ms, st.p999_ms }
       IN  /\ st.total = Len(metrics)
           /\ st.errors = Cardinality(bad)
           /\ st.allowed = Cardinality({ i \in ok : metrics[i].allowed = "true" })
           /\ st.denied = Cardinality({ i \in ok : metrics[i].allowed = "false" })
           /\ st.min_ms = clean.min_ms /\ st.max_ms = clean.max_ms
           /\ st.avg_num = clean.avg_num /\ st.avg_den = clean.avg_den
           /\ st.median_x2 = clean.median_x2
           /\ st.var_num = clean.var_num /\ st.var_den = clean.var_den
           /\ st.p50_ms = clean.p50_ms /\ st.p75_ms = clean.p75_ms
           /\ st.p90_ms = clean.p90_ms /\ st.p95_ms = clean.p95_ms
           /\ st.p99_ms = clean.p99_ms /\ st.p999_ms = clean.p999_ms
           /\ n > 0 =>
                 /\ \E i \in ok : st.min_ms = lat(i)
                 /\ \E i \in ok : st.max_ms = lat(i)
                 /\ \A i \in ok : st.min_ms <= lat(i) /\ lat(i) <= st.max_ms
                 /\ st.avg_num = SumOver(ok) /\ st.avg_den = n
                 /\ 2 * Cardinality({ i \in ok : 2 * lat(i) <= st.median_x2 }) >= n
                 /\ 2 * Cardinality({ i \in ok : 2 * lat(i) >= st.median_x2 }) >= n
                 /\ \E i \in ok : \E j \in ok : st.median_x2 = lat(i) + lat(j)
                 /\ Percentiles \subseteq { lat(i) : i \in ok }
           /\ n > 1 => st.var_num = SqDiffs(ok) /\ st.var_den = n * (n - 1)
           /\ n <= 1 => st.var_num = 0
           /\ n = 0 =>
                 /\ st.min_ms = 0 /\ st.max_ms = 0 /\ st.avg_num = 0 /\ st.median_x2 = 0
                 /\ Percentiles = { 0 }

\* the report of a log in which a failed outcome with the smallest latency precedes two
\* successful ones: the minimum reported is the smaller successful latency
C12_Witness ==
    /\ report # NoReport
    /\ Len(metrics) = 3
    /\ metrics[1].error # NoneV /\ metrics[1].latency_ms = 50
    /\ metrics[2].error = NoneV /\ metrics[2].latency_ms = 250
    /\ metrics[3].error = NoneV /\ metrics[3].latency_ms = 150
    /\ report[1].overall.min_ms = 150
    /\ report[1].overall.median_x2 = 400
    /\ report[1].overall.errors = 1

\* the behaviour of the service in a run of the edge-case suite against one behaviour
Service == CHOOSE p \in env.edge : TRUE

\* the answers to the n requests a scenario of capacity c sends before its wait
Answers(n, c) == ProfileSeq(Service, n, c, FALSE)

\* an answer is a transport failure; a 200 answer whose body is a JSON object
IsTransportFailure(r) == r.failed
IsParsed200(r) == ~r.failed /\ r.status = 200 /\ r.body = "obj"
\* the answer allows: 200 and a true "allowed"; it denies: 200 and no true "allowed", or 429
IsAllow(r) == IsParsed200(r) /\ r.allowed = "true"
IsDeny(r) == (IsParsed200(r) /\ r.allowed # "true") \/ (~r.failed /\ r.status = 429)

\* C13 (as amended): the exhaust-bucket scenario reports pass exactly when, of its 15
\* answers, 9 to 11 allow, at least 4 deny and none is an error of any kind: a transport
\* failure, a status other than 200 and 429, or a 200 body that is not a JSON object; it
\* passes against a service that allows the first 10 requests and denies the next 5.
C13_ExhaustBucket ==
    Len(edge_case_results) >= 1 =>
       LET rs == Answers(ExhaustCapacity + ExhaustExtra, ExhaustCapacity)
           allowed == Cardinality({ i \in DOMAIN rs : IsAllow(rs[i]) })
           denied == Cardinality({ i \in DOMAIN rs : IsDeny(rs[i]) })
           errors == Cardinality({ i \in DOMAIN rs : ~IsAllow(rs[i]) /\ ~IsDeny(rs[i]) })
       IN  /\ edge_case_results[1] <=>
                 (allowed \in 9..11 /\ denied >= 4 /\ errors = 0)
           /\ Service.name \in { "bucket", "bucket429" } =>
                 allowed = 10 /\ denied = 5 /\ edge_case_results[1]

\* C13 as stated: ... and there were zero transport errors.
C13_Original ==
    Len(edge_case_results) >= 1 =>
       LET rs == Answers(ExhaustCapacity + ExhaustExtra, ExhaustCapacity)
           allowed == Cardinality({ i \in DOMAIN rs : IsAllow(rs[i]) })
           denied == Cardinality({ i \in DOMAIN rs : IsDeny(rs[i]) })
           transport_errors == Cardinality({ i \in DOMAIN rs : IsTransportFailure(rs[i]) })
       IN  edge_case_results[1] <=>
              (allowed \in 9..11 /\ denied >= 4 /\ transport_errors = 0)

\* the scenario has passed on 11 allowed and 4 denied answers, the edge of both bands
C13_Witness ==
    /\ Len(edge_case_results) >= 1
    /\ edge_case_results[1]
    /\ LET rs == Answers(ExhaustCapacity + ExhaustExtra, ExhaustCapacity)
       IN  /\ Cardinality({ i \in DOMAIN rs : IsAllow(rs[i]) }) = 11
           /\ Cardinality({ i \in DOMAIN rs : IsDeny(rs[i]) }) = 4

\* the answer carries a retry-after value greater than 0, in its body or its header
HasPositiveRetryAfter(r) ==
    \/ r.body = "obj" /\ r.retry # NoInt /\ r.retry[1] > 0
    \/ r.header # NoInt /\ r.header[1] > 0

\* C14 as stated: the retry-after scenario passes only if every denied answer among the
\* 5 probes sent after the capacity-5 bucket was exhausted carries a retry-after value
\* greater than 0; one denied answer without such a value makes the scenario fail.
C14_Original ==
    (Len(edge_case_results) >= 4 /\ edge_case_results[4]) =>
       LET rs == Answers(RetryCapacity + RetryProbes, RetryCapacity)
           probes == (RetryCapacity + 1) .. (RetryCapacity + RetryProbes)
       IN  \A i \in probes : IsDeny(rs[i]) => HasPositiveRetryAfter(rs[i])

\* the answers to the n requests a scenario of capacity c sends after its wait
AnswersAfterWait(n, c) == ProfileSeq(Service, n, c, TRUE)

\* pre-wait run allowed exactly 10 and post-wait run allowed at least 7
RefillCondition ==
    LET rs == Answers(RefillCapacity, RefillCapacity)
        rs2 == AnswersAfterWait(RefillCapacity, RefillCapacity)
    IN  /\ Cardinality({ i \in DOMAIN rs : IsAllow(rs[i]) }) = 10
        /\ Cardinality({ i \in DOMAIN rs2 : IsAllow(rs2[i]) }) >= 7

\* C15 as stated: the gradual-refill scenario reports pass exactly when the pre-wait run
\* allowed exactly 10 requests and the post-wait run allowed at least 7: once it has run,
\* it has reported pass if that holds and fail if not; and it passes against a token
\* bucket that starts full and has refilled to capacity after the 2 s wait.
C15_Original ==
    /\ Len(edge_case_results) = 5 => (edge_case_results[5] <=> RefillCondition)
    /\ (Len(edge_case_results) = 4 /\ pc # "edge") => ~RefillCondition
    /\ (Len(edge_case_results) = 5 /\ Service.name = "bucket") => edge_case_results[5]

\* C15 for services none of whose answers to the scenario makes an unguarded call raise
C15_WhenNothingRaises ==
    (\A i \in 1..RefillCapacity :
        /\ ~RaisesUnguarded(Answers(RefillCapacity, RefillCapacity)[i])
        /\ ~RaisesUnguarded(AnswersAfterWait(RefillCapacity, RefillCapacity)[i]))
    => C15_Original

\* a call on the answer raises inside a scenario's try block: a transport failure, or a
\* 200 body that is not a JSON object
IsRaising(r) == r.failed \/ (r.status = 200 /\ r.body # "obj")

\* the remainingTokens values of the allowed answers that carry one, in order
CollectedTokens ==
    LET rs == Answers(TokensCapacity, TokensCapacity)
        Carries(r) == IsAllow(r) /\ r.remaining # NoInt
        kept == SelectSeq(rs, Carries)
    IN  [ i \in DOMAIN kept |-> kept[i].remaining[1] ]

\* no value of the list is followed by a larger one
NonIncreasing(vs) == \A i \in 1..(Len(vs) - 1) : vs[i] >= vs[i + 1]

\* C16 (as amended): the token-tracking scenario passes exactly when at least 3
\* remaining-token values were collected, they form a non-increasing sequence and no
\* request raised; so it fails whenever a collected value is followed by a larger one,
\* and it also fails, "Not enough token data collected", on 2 values or fewer.
C16_TokenTracking ==
    Len(edge_case_results) >= 3 =>
       LET rs == Answers(TokensCapacity, TokensCapacity)
       IN  /\ edge_case_results[3] <=>
                 /\ Len(CollectedTokens) >= 3
                 /\ NonIncreasing(CollectedTokens)
                 /\ \A i \in DOMAIN rs : ~IsRaising(rs[i])
           /\ ~NonIncreasing(CollectedTokens) => ~edge_case_results[3]
           /\ Len(CollectedTokens) <= 2 => ~edge_case_results[3]

\* C16 as stated: it passes whenever the collected values are non-increasing and no
\* request failed (in any way), whatever the number of values collected, and fails
\* whenever some collected value is followed by a larger one.
C16_Original ==
    Len(edge_case_results) >= 3 =>
       LET rs == Answers(TokensCapacity, TokensCapacity)
       IN  /\ (/\ NonIncreasing(CollectedTokens)
               /\ \A i \in DOMAIN rs : IsAllow(rs[i]) \/ IsDeny(rs[i]))
              => edge_case_results[3]
           /\ ~NonIncreasing(CollectedTokens) => ~edge_case_results[3]

\* the scenario has passed on exactly three collected values
C16_Witness ==
    /\ Len(edge_case_results) >= 3
    /\ edge_case_results[3]
    /\ Len(CollectedTokens) = 3
    /\ CollectedTokens[1] = CollectedTokens[2]
    /\ CollectedTokens[2] > CollectedTokens[3]

\* C17 (as amended): the burst-beyond-capacity scenario reports pass exactly when, of its
\* 50 answers, at least 28 deny, at most 22 allow and none made a call raise (no
\* transport failure, no 200 body that is not a JSON object).
C17_BurstBeyondCapacity ==
    Len(edge_case_results) >= 2 =>
       LET rs == Answers(BurstSize, BurstCapacity)
           allowed == Cardinality({ i \in DOMAIN rs : IsAllow(rs[i]) })
           denied == Cardinality({ i \in DOMAIN rs : IsDeny(rs[i]) })
       IN  edge_case_results[2] <=>
              /\ denied >= (50 - 20) - 2
              /\ allowed <= 20 + 2
              /\ \A i \in DOMAIN rs : ~IsRaising(rs[i])

\* C17 as stated: it reports pass exactly when the denied count is at least 28 and the
\* allowed count is at most 22.
C17_Original ==
    Len(edge_case_results) >= 2 =>
       LET rs == Answers(BurstSize, BurstCapacity)
           allowed == Cardinality({ i \in DOMAIN rs : IsAllow(rs[i]) })
           denied == Cardinality({ i \in DOMAIN rs : IsDeny(rs[i]) })
       IN  edge_case_results[2] <=> (denied >= 28 /\ allowed <= 22)

\* the scenario has passed on 22 allowed and 28 denied answers, the edge of both margins
C17_Witness ==
    /\ Len(edge_case_results) >= 2
    /\ edge_case_results[2]
    /\ LET rs == Answers(BurstSize, BurstCapacity)
       IN  /\ Cardinality({ i \in DOMAIN rs : IsAllow(rs[i]) }) = 22
           /\ Cardinality({ i \in DOMAIN rs : IsDeny(rs[i]) }) = 28

\* the overall error rate of the log is exactly pct percent
ErrorRateIs(pct) ==
    /\ metrics # << >>
    /\ Cardinality({ i \in DOMAIN metrics : metrics[i].error # NoneV }) * 100
       = pct * Len(metrics)

\* the state of the service when the load is over, when the run knows one
HealthAfter == CHOOSE h \in env.health_after : TRUE

\* C18 (as amended): post-test validation fails when the overall error rate is above 5%,
\* so at 6%; at 5% or below, so at 3%, it passes exactly when its health request finds
\* the service UP and, under strict validation, the p95 latency is at most 100 ms and the
\* p99 latency at most 200 ms.
C18_ErrorRateThreshold ==
    (validation_passed # NoneV /\ Cardinality(env.health_after) = 1) =>
       LET total == Len(metrics)
           errors == Cardinality({ i \in DOMAIN metrics : metrics[i].error # NoneV })
           others == /\ HealthAfter = "up"
                     /\ args.strict_validation =>
                           /\ report[1].overall.p95_ms <= 100
                           /\ report[1].overall.p99_ms <= 200
       IN  /\ ErrorRateIs(6) => validation_passed = "false"
           /\ ErrorRateIs(3) => (validation_passed = "true" <=> others)
           /\ validation_passed = "true" <=> (errors * 100 <= 5 * total /\ others)

\* C18 as stated: at an overall error rate of 6% validation reports failure, at 3% it
\* reports pass.
C18_Original ==
    validation_passed # NoneV =>
       /\ ErrorRateIs(6) => validation_passed = "false"
       /\ ErrorRateIs(3) => validation_passed = "true"

\* a strict validation has passed on 3 failed outcomes out of 100
C18_Witness ==
    /\ validation_passed = "true"
    /\ args.strict_validation
    /\ Len(metrics) = 100
    /\ ErrorRateIs(3)
    /\ env.health_after = { "up" }

\* the calls of weighted_choice made so far
ChoiceCalls == { generated[0][i] : i \in DOMAIN generated[0] }

\* the weight of the first k items together
CumulativeWeight(items, k) ==
    LET weights == [ i \in 1 .. k |-> items[i][2] ] IN Sum(weights)

\* the entries whose cumulative weight reaches the draw u
Reaching(items, u) == { k \in DOMAIN items : CumulativeWeight(items, k) >= u }

\* C19: weighted_choice, given the draw u and a non-empty list of (value, weight) pairs,
\* returns the value of the first entry whose cumulative weight is >= u, and the value
\* of the last entry when no cumulative weight reaches u.
C19_WeightedChoice ==
    \A c \in ChoiceCalls :
       LET reach == Reaching(c.items, c.r)
       IN  IF reach # {}
           THEN c.value = c.items[CHOOSE k \in reach : \A j \in reach : k <= j][1]
           ELSE c.value = c.items[Len(c.items)][1]

\* a call on three entries whose weights together stay below the draw has returned
\* the last of them
C19_Witness ==
    \E c \in ChoiceCalls :
       /\ Len(c.items) = 3
       /\ Reaching(c.items, c.r) = {}
       /\ c.value = 3

\* the traffic profile of the k-th iteration of a worker whose generator was seeded
\* with seed, computed from the seed alone
RECURSIVE StateAfter(_, _, _)
StateAfter(seed, k, algorithms) ==
    IF k = 0 THEN Random(seed)
    ELSE generate_traffic_profile(StateAfter(seed, k - 1, algorithms), algorithms).rnd

TrafficAt(seed, k, algorithms) ==
    generate_traffic_profile(StateAfter(seed, k - 1, algorithms), algorithms).profile

\* C20: the sequence of (key, endpoint, tokens, client IP, algorithm) tuples a worker
\* generates is a function of seed + worker id and the algorithm list alone: its k-th
\* tuple is the k-th tuple of a generator seeded with seed + i, whatever the other
\* workers drew and whatever the service answered.
C20_TrafficDeterministic ==
    pc = "traffic" =>
       \A w \in DOMAIN generated : \A k \in DOMAIN generated[w] :
          generated[w][k].profile = TrafficAt(args.seed + w, k, args.algorithms)

\* two workers have each drawn MaxRequests profiles, different ones, after different
\* answers of the service to their first requests
C20_Witness ==
    /\ pc = "traffic"
    /\ Len(generated[0]) = MaxRequests
    /\ Len(generated[1]) = MaxRequests
    /\ generated[0][1].resp = Transport
    /\ generated[1][1].resp = Allow(1)
    /\ generated[0][1].profile # generated[1][1].profile
    /\ generated[0][1].profile # generated[0][2].profile

\* the exchange of worker w returned a body that is not the expected structure: not JSON,
\* JSON that is no object, or an object without the allowed field
UnexpectedBody(r) ==
    /\ ~r.failed
    /\ \/ r.body \in { "malformed", "nonobj" }
       \/ r.body = "obj" /\ r.allowed = NoneV

\* the outcome the step appends to the log of the current pool
Appended == IF pool = "burst" THEN burst_metrics'[Len(burst_metrics')]
            ELSE metrics'[Len(metrics')]

\* C21 as stated: a check response whose body is malformed JSON or lacks the expected
\* structure is recorded with a non-empty error and as neither allowed nor denied, and
\* the worker goes on.
C21_Original ==
    [][\A w \in Workers :
          (wk[w].pc = "append" /\ wk'[w].pc # "append"
             /\ wk[w].req.endpoint = "rate_limit_check" /\ UnexpectedBody(wk[w].resp)) =>
             /\ Appended.wid = w
             /\ Appended.error \notin { NoneV, "" }
             /\ Appended.allowed = NoneV
             /\ wk'[w].pc \in { "sleep", "request", "stopped" }]_vars

\* C21 for the bodies the worker does reject: a body that is not JSON, or JSON that is
\* no object, is recorded with a non-empty error and allowed unknown, and the worker
\* goes on; an object without the allowed field is recorded as denied, with no error.
C21_AsImplemented ==
    [][\A w \in Workers :
          (wk[w].pc = "append" /\ wk'[w].pc # "append"
             /\ wk[w].req.endpoint = "rate_limit_check" /\ UnexpectedBody(wk[w].resp)) =>
             /\ Appended.wid = w
             /\ wk'[w].pc \in { "sleep", "request", "stopped" }
             /\ IF wk[w].resp.body = "obj"
                THEN Appended.error = NoneV /\ Appended.allowed = "false"
                ELSE Appended.error \notin { NoneV, "" } /\ Appended.allowed = NoneV]_vars

\* the edge-case summary of the report agrees with the results of the suite
SummaryAgrees ==
    LET s == report[1].edge_cases
    IN  /\ s.present
        /\ s.total_tests = NumScenarios
        /\ s.passed + s.failed = s.total_tests
        /\ s.failed = 0 <=> \A i \in DOMAIN edge_case_results : edge_case_results[i]

\* C22 as stated: every run of the edge-case suite yields exactly five results, and the
\* report's edge-case summary has passed + failed = total_tests = 5 with failed = 0
\* exactly when all five scenarios passed.
C22_Original ==
    /\ ("edge" \in Range(ran) /\ pc # "edge") => Len(edge_case_results) = NumScenarios
    /\ report # NoReport => SummaryAgrees

\* C22 for the suites that return: once the load phase has begun there are exactly five
\* results, and a report that is written summarises them as stated.
C22_WhenSuiteReturns ==
    /\ "load" \in Range(ran) => Len(edge_case_results) = NumScenarios
    /\ report # NoReport => SummaryAgrees

\* the deadline of worker w: its start_time + duration_seconds, in ticks
Deadline(w) == wk[w].start_time + Ticks(PoolConfig(pool).duration_seconds)

\* C23 as stated: a worker's pacing sleep never extends past its deadline: no worker
\* sleeps for pacing until a time later than start + duration.
C23_Original ==
    \A w \in Workers : wk[w].pc = "sleep" => wk[w].wake <= Deadline(w)

\* C23, what the code does keep: a pacing sleep begins before the deadline and lasts at
\* most one interval, the part of it that the request left over.
C23_SleepWithinInterval ==
    \A w \in Workers :
       wk[w].pc = "sleep" =>
          LET cfg == PoolConfig(pool)
          IN  /\ wk[w].wake - Interval(cfg.target_rps, cfg.concurrency) < Deadline(w)
              /\ wk[w].wake <= now + Interval(cfg.target_rps, cfg.concurrency)

\* the log of the pool that is running
PoolLog == IF pool = "burst" THEN burst_metrics ELSE metrics

\* C24 as stated: all workers of a pool stop against one shared deadline: no worker
\* starts a request at or after pool start + duration, however late it began executing,
\* and every outcome in the log has a request start time before pool start + duration.
\* (Times count from the creation of the pool.)
C24_Original ==
    pool # "none" =>
       LET duration_seconds == PoolConfig(pool).duration_seconds
       IN  /\ \A w \in Workers : wk[w].pc = "request" => wk[w].t0 < Ticks(duration_seconds)
           /\ \A i \in DOMAIN PoolLog :
                 PoolLog[i].timestamp_ms < duration_seconds * 1000

\* C24, what the code does keep: every worker stops against its own deadline, its own
\* start_time + duration: it starts no request at or after it.
C24_OwnDeadline ==
    pool # "none" =>
       \A w \in Workers : wk[w].pc = "request" => wk[w].t0 < Deadline(w)

\* the step reads an outcome log: len(metrics) after a pool, generate_reports,
\* aggregate_metrics for the validation
ReadsLog ==
    \/ pc = "join" /\ pc' # pc
    \/ pc = "burst_join" /\ pc' # pc
    \/ report' # report
    \/ validation_passed' # validation_passed

\* C25: no read or aggregation of an outcome log happens while a worker writing to it is
\* running: the length of a log is taken when every worker of its pool has finished, and
\* the report and the validation are computed when no pool exists any more, both pools
\* having been joined.
C25_ReadAfterJoin ==
    /\ [][ReadsLog => \A w \in Workers : Terminal(w)]_vars
    /\ [][(report' # report \/ validation_passed' # validation_passed) =>
             /\ pool = "none"
             /\ joined # NoJoin
             /\ joined[1].collected = Len(metrics)]_vars

\* a report was written on the log that two workers had both appended to
C25_Witness ==
    /\ report # NoReport
    /\ args.concurrency = 2
    /\ Len(metrics) >= 3
    /\ \E i \in DOMAIN metrics : metrics[i].wid = 1
    /\ \E i \in DOMAIN metrics : metrics[i].wid = 2

\* the totals of a breakdown of the report, added up
RECURSIVE TotalOver(_, _)
TotalOver(stats, keys) ==
    IF keys = {} THEN 0
    ELSE LET k == CHOOSE x \in keys : TRUE
         IN  stats[k].total + TotalOver(stats, keys \ {k})

\* C26: the burst pool is created only when the main pool has been joined, with 3 times
\* the configured concurrency, 3 times the target rate and the burst window as duration,
\* on a new empty log of its own; the main log does not change once the main pool has
\* been joined, only burst workers append to the burst log, and the report's overall,
\* per-algorithm and per-endpoint statistics count the outcomes of the main log alone.
C26_BurstIndependent ==
    /\ [][(pool # "burst" /\ pool' = "burst") =>
             /\ pool = "none" /\ wk = << >>
             /\ joined # NoJoin
             /\ Len(wk') = 3 * args.concurrency
             /\ \A w \in DOMAIN wk' : wk'[w] = QueuedWorker
             /\ PoolConfig("burst").target_rps = 3 * args.target_rps
             /\ PoolConfig("burst").duration_seconds = BurstSeconds
             /\ burst_metrics' = << >>]_vars
    /\ [][joined # NoJoin => metrics' = metrics]_vars
    /\ [][burst_metrics' # burst_metrics => pool' = "burst"]_vars
    /\ [](report # NoReport =>
            /\ report[1].overall.total = joined[1].collected
            /\ report[1].overall.total = Len(metrics)
            /\ TotalOver(report[1].algorithms, DOMAIN report[1].algorithms) = Len(metrics)
            /\ TotalOver(report[1].endpoints, DOMAIN report[1].endpoints) = Len(metrics))

\* a report was written after a main pool and a burst pool that both recorded outcomes
C26_Witness ==
    /\ report # NoReport
    /\ "burst" \in Range(ran)
    /\ Len(burst_metrics) >= 3
    /\ Len(metrics) >= 1
    /\ report[1].overall.total = Len(metrics)

\* the exchange of worker w returned HTTP 429
Answered429(w) ==
    /\ wk[w].req.endpoint = "rate_limit_check"
    /\ ~wk[w].resp.failed
    /\ wk[w].resp.status = 429

\* C27 as stated, load phase: a check response with status 429 is recorded as a denied
\* outcome (allowed = false), whether or not it carries a body, and counts in
\* AggregateStats.denied.
C27_Original ==
    /\ [][\A w \in Workers :
             (wk[w].pc = "append" /\ wk'[w].pc # "append" /\ Answered429(w)) =>
                Appended.allowed = "false"]_vars
    /\ [](report # NoReport =>
            report[1].overall.denied
               >= Cardinality({ i \in DOMAIN metrics : metrics[i].status_code = 429 }))

\* C27, load phase as implemented: a 429 response is recorded as denied only when its
\* body is a JSON object, and then because of the body; without a body it is recorded
\* as neither allowed nor denied and with no error.
C27_LoadAsImplemented ==
    [][\A w \in Workers :
          (wk[w].pc = "append" /\ wk'[w].pc # "append" /\ Answered429(w)) =>
             /\ wk[w].resp.body = "" =>
                   Appended.allowed = NoneV /\ Appended.error = NoneV
             /\ wk[w].resp.body = "obj" =>
                   Appended.allowed = Bool(wk[w].resp.allowed = "true")]_vars

\* C27, edge-case scenarios: in the exhaust-bucket and the burst scenario every response
\* with status 429 adds one to the denied count, as every 200 response whose object
\* does not say allowed = true does.
C27_ScenariosCount429 ==
    \A p \in env.edge :
       LET rs1 == ProfileSeq(p, ExhaustCapacity + ExhaustExtra, ExhaustCapacity, FALSE)
           rs2 == ProfileSeq(p, BurstSize, BurstCapacity, FALSE)
           Denials(rs) ==
              Cardinality({ i \in DOMAIN rs : ~rs[i].failed /\ rs[i].status = 429 })
              + Cardinality({ i \in DOMAIN rs :
                                 /\ ~rs[i].failed /\ rs[i].status = 200
                                 /\ rs[i].body = "obj" /\ rs[i].allowed # "true" })
       IN  /\ test_exhaust_bucket(rs1).actual_denied = Denials(rs1)
           /\ test_burst_beyond_capacity(rs2).actual_denied = Denials(rs2)

\* C28 as stated: the five scenarios of one suite run use pairwise distinct keys, and a
\* key used by a scenario in one suite run is never used by the same scenario in another
\* suite run, whenever that run was started.
C28_Original ==
    /\ \A r \in SuiteRuns : \A i \in DOMAIN suite_keys[r] : \A j \in DOMAIN suite_keys[r] :
          i # j => suite_keys[r][i] # suite_keys[r][j]
    /\ \A r \in SuiteRuns : \A q \in SuiteRuns \ {r} :
          \A k \in DOMAIN suite_keys[r] \cap DOMAIN suite_keys[q] :
             suite_keys[r][k] # suite_keys[q][k]

\* C28, what the code does keep: the keys of one suite run are pairwise distinct, and
\* the keys of the same scenario in two suite runs differ when the two were built in
\* different wall-clock seconds.
C28_DistinctBySecond ==
    /\ \A r \in SuiteRuns : \A i \in DOMAIN suite_keys[r] : \A j \in DOMAIN suite_keys[r] :
          i # j => suite_keys[r][i] # suite_keys[r][j]
    /\ \A r \in SuiteRuns : \A q \in SuiteRuns \ {r} :
          \A k \in DOMAIN suite_keys[r] \cap DOMAIN suite_keys[q] :
             suite_keys[r][k] = suite_keys[q][k] <=> suite_keys[r][k][3] = suite_keys[q][k][3]


\* ---- C29 ----
\* the configuration call of the scenario that has just run
KeyCall == configuration'.keys[Len(configuration'.keys)]

SetupStep == pc = "setup" /\ pc' = "warmup" /\ ~args.skip_setup

ScenarioStep == pc = "edge" /\ Len(configuration'.keys) = Len(configuration.keys) + 1

\* C29 as stated: a configuration call that returns a status other than 200/201 or
\* fails in transport is only a warning.  setup_configurations still puts the push of
\* every algorithm on the wire and returns false exactly when some push failed, and the
\* run goes on to the warmup; in a scenario whose configuration call failed the scenario
\* still sends its check requests and returns its result.  Violated: after a call that
\* timed out, the connection refuses every later request, so the remaining pushes are
\* never sent, and the scenario sends none of its check requests (scenarios 4 and 5 end
\* the run with the exception of the first of them).
C29_Original ==
    [][ /\ SetupStep =>
            /\ Len(configuration'.pushed) = Len(args.algorithms)
            /\ \A i \in DOMAIN configuration'.pushed :
                  configuration'.pushed[i] # "not_sent"
            /\ configuration'.success = "false" <=>
                  \E i \in DOMAIN configuration'.pushed : configuration'.pushed[i] # "ok"
            /\ exit_code' = NoInt
       /\ ScenarioStep =>
            /\ pc' # "crashed"
            /\ Len(edge_case_results') = Len(edge_case_results) + 1
            /\ KeyCall.conn = Idle ]_vars

\* C29, what the code does: setup_configurations goes through every algorithm and
\* returns false exactly when some push failed, but a push that follows a timed-out one
\* is never sent; the run goes on to the warmup either way.  setup_key_config raises
\* nothing; when its push or its read-back timed out, the scenario's check requests all
\* fail unsent: scenarios 1 to 3 then return a failed result, scenarios 4 and 5 raise.
\* After any other configuration failure the scenario runs as after a success.
C29_AsImplemented ==
    [][ /\ SetupStep =>
            /\ Len(configuration'.pushed) = Len(args.algorithms)
            /\ \A i \in DOMAIN configuration'.pushed :
                  configuration'.pushed[i] = "not_sent" <=>
                     \E j \in 1 .. (i - 1) : configuration'.pushed[j] = "timeout"
            /\ configuration'.success = "false" <=>
                  \E i \in DOMAIN configuration'.pushed : configuration'.pushed[i] # "ok"
            /\ exit_code' = NoInt
       /\ ScenarioStep =>
            LET k == Len(configuration'.keys)
                stuck == "timeout" \in { KeyCall.met[1], KeyCall.met[2] }
            IN  /\ KeyCall.conn = RequestSent <=> stuck
                /\ ~stuck =>
                      /\ pc' # "crashed"
                      /\ Len(edge_case_results') = k
                /\ stuck /\ k <= 3 =>
                      /\ pc' # "crashed"
                      /\ Len(edge_case_results') = k
                      /\ ~edge_case_results'[k]
                /\ stuck /\ k > 3 =>
                      /\ pc' = "crashed"
                      /\ exit_code' = Some(ExitFailure)
                      /\ UNCHANGED edge_case_results ]_vars


\* ---- C30 ----
RateBreach ==
    Cardinality({ i \in DOMAIN metrics : metrics[i].error # NoneV }) * 100 > 5 * Len(metrics)

P95Breach == report[1].overall.p95_ms > 100
P99Breach == report[1].overall.p99_ms > 200

\* C30: strict validation fails on any threshold breach (error rate above 5%, p95 above
\* 100 ms, p99 above 200 ms) or on an unhealthy answer to the health request after the
\* load; non-strict validation fails on an error-rate breach or an unhealthy answer
\* only, a p95 or p99 breach alone leaving it passed; an error rate of exactly 5% is no
\* breach.
C30_StrictAndLenient ==
    (validation_passed # NoneV /\ Cardinality(env.health_after) = 1) =>
       /\ args.strict_validation =>
             (validation_passed = "false"
                <=> (RateBreach \/ P95Breach \/ P99Breach \/ HealthAfter # "up"))
       /\ ~args.strict_validation =>
             (validation_passed = "false" <=> (RateBreach \/ HealthAfter # "up"))
       /\ (ErrorRateIs(5) /\ HealthAfter = "up" /\ ~P95Breach /\ ~P99Breach) =>
             validation_passed = "true"

\* a non-strict validation has passed on a log with exactly 5% of failed outcomes whose
\* p99 latency alone is above its threshold
C30_Witness ==
    /\ validation_passed = "true"
    /\ ~args.strict_validation
    /\ ErrorRateIs(5)
    /\ ~P95Breach
    /\ P99Breach
    /\ env.health_after = { "up" }

\* a strict validation has failed on nothing but that p99 latency
C30_WitnessStrict ==
    /\ validation_passed = "false"
    /\ args.strict_validation
    /\ ~RateBreach
    /\ ~P95Breach
    /\ P99Breach
    /\ env.health_after = { "up" }


\* ---- C31 ----
\* the rates computed so far, main pool first
Pacings == generated[0]

\* C31: a worker's per-worker rate is max(1, floor(target RPS / concurrency)), with a
\* concurrency of 0 counted as 1, and its interval is 1 / that rate, so never longer
\* than one second; the workers of the burst pool, built with 3x the concurrency and 3x
\* the target RPS, compute the same per-worker rate as those of the main pool.
C31_PerWorkerRate ==
    /\ PerWorkerRps(args.target_rps, 0) = PerWorkerRps(args.target_rps, 1)
    /\ \A i \in DOMAIN Pacings :
          LET r == Pacings[i]
          IN  /\ r.per_worker_rps >= 1
              /\ r.per_worker_rps >= r.target_rps \div r.concurrency
              /\ r.per_worker_rps * r.concurrency <= Max(r.target_rps, r.concurrency)
              /\ r.per_worker_rps > 1 =>
                    (r.per_worker_rps + 1) * r.concurrency > r.target_rps
              /\ r.interval_num * r.per_worker_rps = r.interval_den
              /\ r.interval_num <= r.interval_den
              /\ Interval(r.target_rps, r.concurrency) <= Ticks(1)
    /\ Len(Pacings) = 2 =>
          /\ Pacings[2].concurrency = 3 * Pacings[1].concurrency
          /\ Pacings[2].target_rps = 3 * Pacings[1].target_rps
          /\ Pacings[2].per_worker_rps = Pacings[1].per_worker_rps

\* both pools have paced, at a rate above one request per second with a remainder in
\* the division
C31_Witness ==
    /\ Len(Pacings) = 2
    /\ Pacings[1].per_worker_rps = 2
    /\ Pacings[1].target_rps = 11
    /\ Pacings[1].concurrency = 4
    /\ Pacings[2].per_worker_rps = 2


\* ---- C37 ----
\* C37 (as amended): the summed pacing rate of a pool, concurrency x per-worker rate,
\* never exceeds the larger of the target RPS and the concurrency; it stays within the
\* target RPS whenever the target RPS is at least the concurrency, and equals the
\* concurrency, above the target, whenever the target RPS is below it.
C37_SummedRate ==
    \A i \in DOMAIN Pacings :
       LET r == Pacings[i]
           summed == r.concurrency * r.per_worker_rps
       IN  (r.target_rps >= 1 /\ r.concurrency >= 1) =>
              /\ summed <= Max(r.target_rps, r.concurrency)
              /\ r.target_rps >= r.concurrency => summed <= r.target_rps
              /\ r.target_rps < r.concurrency => summed = r.concurrency

\* C37 as stated: concurrency x per-worker rate never exceeds the target RPS, for every
\* target RPS >= 1 and concurrency >= 1.
C37_Original ==
    \A i \in DOMAIN Pacings :
       (Pacings[i].target_rps >= 1 /\ Pacings[i].concurrency >= 1) =>
          Pacings[i].concurrency * Pacings[i].per_worker_rps <= Pacings[i].target_rps

\* a main pool of 4 workers with a target of 3 requests per second has paced
C37_Witness ==
    /\ Len(Pacings) >= 1
    /\ Pacings[1].concurrency = 4
    /\ Pacings[1].target_rps = 3
    /\ Pacings[1].per_worker_rps = 1


\* ---- C32 ----
Did(phase) == phase \in Range(ran)

\* every toggle of parse_args set against its phase
AllSkipped ==
    /\ args.skip_health_checks
    /\ args.skip_setup
    /\ args.warmup_seconds = 0
    /\ args.skip_burst_test
    /\ args.skip_benchmark_test
    /\ args.skip_performance_test

\* C32 as stated: every phase other than the main load can be switched off by the run
\* configuration and then issues none of its requests, so a run with every toggle set
\* runs nothing before its main load, the edge-case suite included; and a run that is
\* not aborted runs its main load.  Violated: no toggle reaches the edge-case suite.
C32_Original ==
    /\ AllSkipped =>
          /\ Range(ran) \subseteq { "load", "report", "validation" }
          /\ edge_case_results = << >>
          /\ configuration.keys = << >>
    /\ validation_passed # NoneV => Did("load")

\* C32, what the code does: the health check, the configuration push, the warmup, the
\* burst, the benchmark and the regression analysis are each left out, requests and all,
\* by their toggle; the edge-case suite has none and runs all five scenarios before
\* every main load; a run that reaches its validation ran its main load.
C32_AsImplemented ==
    /\ args.skip_health_checks => (~Did("health") /\ health_check = NoneV)
    /\ args.skip_setup => (~Did("setup") /\ configuration.pushed = << >>)
    /\ args.warmup_seconds = 0 => ~Did("warmup")
    /\ args.skip_burst_test => (~Did("burst") /\ burst_metrics = << >> /\ pool # "burst")
    /\ args.skip_benchmark_test => ~Did("benchmark")
    /\ args.skip_performance_test => ~Did("performance")
    /\ Did("load") =>
          /\ Did("edge")
          /\ Len(edge_case_results) = NumScenarios
          /\ Len(configuration.keys) = NumScenarios
    /\ validation_passed # NoneV => Did("load")


\* ---- C33 ----
\* the traffic profiles drawn so far
Drawn == { << w, k >> \in (DOMAIN generated) \X (1 .. MaxRequests) : k \in DOMAIN generated[w] }

\* C33: every key generate_traffic_profile produces starts with the lower-cased name of
\* the algorithm drawn for that request, a colon and the user tier; it matches the
\* pattern "<algorithm lower-case>:*" of that algorithm and the pattern of no other
\* default algorithm; and the outcome built from the request carries that algorithm as
\* its label.
C33_KeyMatchesOwnPattern ==
    pc = "traffic" =>
       \A d \in Drawn :
          LET g == generated[d[1]][d[2]]
              p == g.profile
              text == key_text(p.key)
              head == Spell(lower(p.algorithm)) \o << ":" >> \o Spell(p.key[2])
              req == [endpoint |-> p.endpoint_name, algorithm |-> p.algorithm]
          IN  /\ p.algorithm \in Range(args.algorithms)
              /\ p.key[2] \in { user_tiers[i][1] : i \in DOMAIN user_tiers }
              /\ SubSeq(text, 1, Len(head)) = head
              /\ \A i \in DOMAIN Algorithms :
                    Matches(pattern(Algorithms[i]), text) <=> Algorithms[i] = p.algorithm
              /\ g.resp # NoResp =>
                    BuildMetric(d[1], d[2], req, 0, 0, g.resp).algorithm = p.algorithm

\* a worker has been answered on a request drawn for SLIDING_WINDOW_COUNTER, whose name
\* begins with the name of another algorithm
C33_Witness ==
    /\ pc = "traffic"
    /\ \E d \in Drawn :
          /\ generated[d[1]][d[2]].profile.algorithm = "SLIDING_WINDOW_COUNTER"
          /\ generated[d[1]][d[2]].resp # NoResp


\* ---- C34 ----
\* the outcomes the workers of both pools have appended
Outcomes == Range(metrics) \cup Range(burst_metrics)

Counted(stats) == stats.allowed + stats.denied + stats.errors <= stats.total

\* C34: every outcome a worker appends is allowed, denied or unknown; an outcome with an
\* error has an unknown verdict; a verdict is recorded for the rate_limit_check endpoint
\* only; hence in the statistics of a worker-produced log allowed + denied + errors is at
\* most total.
C34_OutcomeClasses ==
    /\ \A m \in Outcomes :
          /\ m.allowed \in { "true", "false", NoneV }
          /\ Cardinality({ c \in { "true", "false", NoneV } : m.allowed = c }) = 1
          /\ m.error # NoneV => m.allowed = NoneV
          /\ m.allowed # NoneV => m.endpoint = "rate_limit_check"
    /\ Counted(aggregate_metrics(metrics, args.duration_seconds))
    /\ Counted(aggregate_metrics(burst_metrics, BurstSeconds))
    /\ report # NoReport => Counted(report[1].overall)

\* the report covers a log with a failed outcome of the check endpoint and an outcome of
\* another endpoint that was answered with a body saying allowed
C34_Witness ==
    /\ report # NoReport
    /\ report[1].overall.errors = 1
    /\ \E m \in Range(metrics) : m.error # NoneV /\ m.endpoint = "rate_limit_check"
    /\ \E m \in Range(metrics) :
          m.endpoint = "admin_stats" /\ m.status_code = 200 /\ m.error = NoneV


\* ---- C35 ----
RECURSIVE SumOver(_, _)
\* the sum of one count over the groups of a breakdown
SumOver(groups, count) ==
    IF DOMAIN groups = {} THEN 0
    ELSE LET x == CHOOSE y \in DOMAIN groups : TRUE
         IN  groups[x][count] + SumOver([ y \in DOMAIN groups \ {x} |-> groups[y] ], count)

\* the four counts of the groups of a breakdown add up to those of the whole
Partitions(groups, whole) ==
    \A count \in { "total", "allowed", "denied", "errors" } :
       SumOver(groups, count) = whole[count]

\* C35: the breakdowns of the report partition the main log: the total, allowed, denied
\* and errors counts of the per-algorithm statistics add up to the overall counts, so do
\* those of the per-endpoint statistics, and for each algorithm the counts of its
\* per-endpoint statistics add up to that algorithm's counts; the overall total is the
\* length of the main log.
C35_BreakdownsPartition ==
    report # NoReport =>
       LET r == report[1]
       IN  /\ r.overall.total = Len(metrics)
           /\ Partitions(r.algorithms, r.overall)
           /\ Partitions(r.endpoints, r.overall)
           /\ DOMAIN r.algo_endpoints = DOMAIN r.algorithms
           /\ \A algo \in DOMAIN r.algo_endpoints :
                 Partitions(r.algo_endpoints[algo], r.algorithms[algo])

\* the report covers a log of two algorithms and two endpoints, with an error
C35_Witness ==
    /\ report # NoReport
    /\ Cardinality(DOMAIN report[1].algorithms) = 2
    /\ Cardinality(DOMAIN report[1].endpoints) = 2
    /\ report[1].overall.errors = 1

\* 100.0, and the doubles within two units in the last place of it: 100 +- 2^-46 and
\* 100 +- 2^-45
Hundred == FromInt(100)

NearHundred ==
    LET up1 == Tail(Inc(Hundred.m))
        down1 == Dec(Hundred.m)
    IN  { [Hundred EXCEPT !.m = b] :
            b \in { Hundred.m, up1, Tail(Inc(up1)), down1, Dec(down1) } }

\* min <= p50 <= p75 <= p90 <= p95 <= p99 <= p99.9 <= max, every percentile a recorded
\* error-free latency (0 when there are none), errors <= total
PercentilesInOrder(st, log) ==
    LET recorded == { log[i].latency_ms : i \in { j \in DOMAIN log : log[j].error = NoneV } }
        Percentiles == { st.p50_ms, st.p75_ms, st.p90_ms, st.p95_ms, st.p99_ms, st.p999_ms }
    IN  /\ st.min_ms <= st.p50_ms /\ st.p50_ms <= st.p75_ms /\ st.p75_ms <= st.p90_ms
        /\ st.p90_ms <= st.p95_ms /\ st.p95_ms <= st.p99_ms /\ st.p99_ms <= st.p999_ms
        /\ st.p999_ms <= st.max_ms
        /\ Percentiles \subseteq (IF recorded = {} THEN { 0 } ELSE recorded)
        /\ st.errors <= st.total

\* C36 as stated: the order of the percentiles, and success_rate + error_rate = 100
\* exactly whenever total > 0
C36_Original ==
    report # NoReport =>
       LET st == report[1].overall
       IN  /\ PercentilesInOrder(st, metrics)
           /\ st.total > 0 => fadd(success_rate(st), error_rate(st)) = Hundred

\* C36: for every outcome set, AggregateStats satisfies min <= p50 <= p75 <= p90 <= p95
\* <= p99 <= p99.9 <= max, every percentile is one of the recorded error-free latencies
\* (or 0 when there are none), errors <= total, and whenever total > 0 the float sum
\* success_rate + error_rate is within 2^-45 of 100, and is 100 when no outcome or every
\* outcome has an error.
C36_RatesNearHundred ==
    report # NoReport =>
       LET st == report[1].overall
           sum == fadd(success_rate(st), error_rate(st))
       IN  /\ PercentilesInOrder(st, metrics)
           /\ st.total > 0 =>
                 /\ sum \in NearHundred
                 /\ st.errors \in { 0, st.total } => sum = Hundred

\* the report of three outcomes, one of them failed and the others of different
\* latencies: the two rates add up to the double below 100
C36_Witness ==
    /\ report # NoReport
    /\ report[1].overall.total = 3
    /\ report[1].overall.errors = 1
    /\ report[1].overall.min_ms < report[1].overall.max_ms
    /\ fadd(success_rate(report[1].overall), error_rate(report[1].overall))
          = [Hundred EXCEPT !.m = Dec(Hundred.m)]

\* ---- C38 ----
\* what the validation returns on the main log when the health request after the load is
\* answered as h, whatever the edge-case scenarios returned
VerdictOf(h) ==
    LET overall == aggregate_metrics(metrics, joined[1].actual_duration)
        failed == Cardinality({ i \in DOMAIN metrics : metrics[i].error # NoneV })
    IN  /\ ~(failed * 100 > 5 * Len(metrics))
        /\ args.strict_validation => overall.p95_ms <= 100 /\ overall.p99_ms <= 200
        /\ h = "up"

\* C38: edge-case results never influence the run's verdict: for any combination of
\* passing and failing scenario results, the value returned by post-test validation is
\* the one the main log, the strictness and the health answer give, as if all five
\* scenarios had passed, and the exit code is 1 exactly for a failed strict validation;
\* the results only appear in the report, which counts the passed and the failed ones.
C38_VerdictIgnoresEdgeCases ==
    /\ (validation_passed # NoneV /\ Cardinality(env.health_after) = 1) =>
          validation_passed = Bool(VerdictOf(HealthAfter))
    /\ (pc = "exited" /\ validation_passed # NoneV) =>
          exit_code = IF args.strict_validation /\ validation_passed = "false"
                      THEN Some(ExitFailure) ELSE Some(0)
    /\ report # NoReport =>
          LET failed == { i \in DOMAIN edge_case_results : ~edge_case_results[i] }
          IN  /\ report[1].edge_cases.total_tests = Len(edge_case_results)
              /\ report[1].edge_cases.failed = Cardinality(failed)
              /\ report[1].edge_cases.passed = Len(edge_case_results) - Cardinality(failed)

\* a strict run whose five scenarios returned, at least one of them failed, has passed
\* its validation and exited with 0, the failure counted in the report
C38_Witness ==
    /\ pc = "exited"
    /\ args.strict_validation
    /\ Len(edge_case_results) = NumScenarios
    /\ \E i \in DOMAIN edge_case_results : ~edge_case_results[i]
    /\ validation_passed = "true"
    /\ exit_code = Some(0)
    /\ report[1].edge_cases.failed >= 1

\* ---- C39 ----
\* the requests issued while the clock read t1 to t2
IssuedIn(t1, t2) ==
    Cardinality({ i \in DOMAIN phase1_issued : t1 <= phase1_issued[i] /\ phase1_issued[i] <= t2 })

\* the token level of b once refilled at the present clock reading
RefilledNow(b) == Min(b.capacity * TicksPerSecond, b.tokens + (phase1_clock - b.last) * b.rate)

\* C39, the level: the token level of the shared bucket stays within [0, capacity], and
\* the number of requests issued in any span of elapsed time T is at most
\* capacity + rate x T.
C39_TokenLevel ==
    phase1_bucket # << >> =>
       /\ 0 <= phase1_bucket[1].tokens
       /\ phase1_bucket[1].tokens <= phase1_bucket[1].capacity * TicksPerSecond
       /\ \A t1 \in 0 .. phase1_clock : \A t2 \in t1 .. phase1_clock :
             IssuedIn(t1, t2) * TicksPerSecond
                <= phase1_bucket[1].capacity * TicksPerSecond
                   + phase1_bucket[1].rate * (t2 - t1)

\* C39, the step: in any interleaving of the workers a request is issued only by a
\* take() that found at least one token after its refill, and that take() removes
\* exactly one token; a take() that finds less issues nothing and removes nothing.
C39_TakeStep ==
    [][ phase1_bucket' # phase1_bucket \/ phase1_issued' # phase1_issued =>
          LET refilled == RefilledNow(phase1_bucket[1])
          IN  IF Len(phase1_issued') > Len(phase1_issued)
              THEN /\ refilled >= TicksPerSecond
                   /\ phase1_bucket'[1].tokens = refilled - TicksPerSecond
                   /\ Len(phase1_issued') = Len(phase1_issued) + 1
              ELSE /\ refilled < TicksPerSecond
                   /\ phase1_bucket'[1].tokens = refilled ]_vars

\* C39: in the async prototype's client-side TokenBucket shared by all workers, after
\* any sequence of take() calls by any interleaving of the asyncio workers the token
\* level stays within [0, capacity], take() returns true only when at least one token
\* was available after refill and then removes exactly one, and so the number of
\* requests issued in any span of elapsed time T is at most capacity + rate x T.
C39_TokenBucketBound == [] C39_TokenLevel /\ C39_TakeStep

\* two workers have had the whole capacity of 3 at once and more after refills, a take
\* was refused in between, and the bucket holds a fraction of a token
C39_Witness ==
    /\ phase1_bucket # << >>
    /\ phase1_bucket[1].capacity = 3
    /\ Cardinality(DOMAIN phase1_tasks) = 2
    /\ IssuedIn(0, 0) = 3
    /\ Len(phase1_issued) > 3
    /\ phase1_bucket[1].tokens < TicksPerSecond
    /\ phase1_bucket[1].tokens > 0
    /\ phase1_bucket[1].last > 0

====
